---------------------------- MODULE Spec2Model ----------------------------
(***************************************************************************)
(* CalmOrbIoT live-streaming core: the streaming-session orchestrator      *)
(* (Services/streaming_service.py, StreamingService) with its two monitor  *)
(* coroutines, and the network-mode manager (Services/ap_manager.py,       *)
(* APManager), together with the collaborators the orchestrator drives     *)
(* (MJPEGServer, AudioServer, ConnectivityServer, CameraService).          *)
(*                                                                         *)
(* Everything runs on one asyncio event loop.  A coroutine runs until it   *)
(* awaits something that is not ready; only then can another task run.     *)
(* The variable `running` is the task that holds the loop: an action of    *)
(* task t needs running \in {NoTask, t}, and leaves running = t when the   *)
(* code that follows is synchronous, NoTask when it suspends.  A pc value  *)
(* names the statement a task resumes at.                                  *)
(***************************************************************************)
EXTENDS Integers, Sequences, FiniteSets, TLC

(***************************************************************************)
(* Bounds of the model.                                                    *)
(***************************************************************************)
\* control-channel requests (start/stop commands) issued over one run, one
\* after the other
MaxTasks == 3
\* control-channel requests issued over one run when they may overlap
MaxConcurrent == 2
\* control-channel requests issued over one run when the supplicant's file
\* is drawn from ConfFiles
MaxCredsTasks == 2

\* The requests of a run in which the queries are asked.
MaxQueryTasks == 2
\* streaming clients connected at once (video + audio)
MaxClients == 2
\* last instant of the clock, in seconds
MaxTime == 11
\* control-channel requests issued over one run with the long clock
MaxTimedTasks == 2
\* last instant of the long clock, in seconds: two wake-ups of the timeout
\* monitor after a start at 1
MaxTimeLong == 21
\* operations of the collaborators and of the operating system that fail
\* over one run
MaxFaults == 2

(***************************************************************************)
(* Program constants.                                                      *)
(***************************************************************************)
\* settings.STREAM_WIFI_RESTORE_RETRIES
STREAM_WIFI_RESTORE_RETRIES == 3
\* asyncio.sleep(10) of _timeout_monitor
TIMEOUT_POLL == 10
\* asyncio.sleep(2) of _client_monitor
CLIENT_POLL == 2

\* Configured values of settings.STREAM_TIMEOUT and
\* settings.STREAM_CLIENT_TIMEOUT (seconds) the model is run for; the shipped
\* values 7200 and 3600 lie beyond the bounded clock.
Durations == {10}
ClientTimeouts == {2}
\* The configured values the runs with the long clock are made for: a session
\* limit below, at and above one sleep of the timeout monitor; a client-idle
\* timeout that is a multiple of the client monitor's sleep and one that is
\* not.
TimedDurations == {4, 10, 15}
TimedClientTimeouts == {2, 3}

\* StreamState (IntEnum)
IDLE == "IDLE"
PREPARING == "PREPARING"
READY == "READY"
ACTIVE == "ACTIVE"
STOPPING == "STOPPING"
ERROR == "ERROR"
StreamState == {IDLE, PREPARING, READY, ACTIVE, STOPPING, ERROR}

\* APState (Enum)
CLIENT_MODE == "client_mode"
AP_STARTING == "ap_starting"
AP_READY == "ap_ready"
AP_STOPPING == "ap_stopping"
AP_FAILED == "ap_failed"
APState == {CLIENT_MODE, AP_STARTING, AP_READY, AP_STOPPING, AP_FAILED}

(***************************************************************************)
(* Tasks.  Request i of the control channel runs as task <<"ctl", i>>      *)
(* (asyncio.create_task in ble_service._handle_start_stream /              *)
(* _handle_stop_stream); the monitors created by the i-th request's        *)
(* _start_monitoring are <<"tmon", i>> and <<"cmon", i>>.                  *)
(***************************************************************************)
TaskIds == 1..MaxTasks
Ctl(i) == <<"ctl", i>>
Tmon(i) == <<"tmon", i>>
Cmon(i) == <<"cmon", i>>
CtlTasks == {Ctl(i) : i \in TaskIds}
TmonTasks == {Tmon(i) : i \in TaskIds}
CmonTasks == {Cmon(i) : i \in TaskIds}
Procs == CtlTasks \cup TmonTasks \cup CmonTasks
NoTask == <<"none", 0>>

\* Python's None for a float (no_client_start) or an object
NoneTime == -1
NoCreds == [ssid |-> "", password |-> ""]
\* What a query or a direct call of the manager handed back: the method, its
\* return value, and for get_status the status.
NoStatus == [state |-> "", error_message |-> "", start_time |-> 0]
Returned(op, value) == [op |-> op, value |-> value, status |-> NoStatus]
\* nothing has been asked yet
NoReply == Returned("", "")

(***************************************************************************)
(* /etc/wpa_supplicant/wpa_supplicant.conf as save_wifi_credentials sees   *)
(* it: whether the file exists, and its network blocks in file order, each *)
(* with its quoted ssid and its quoted psk ("" when the block has none).   *)
(***************************************************************************)
Net(s, p) == [ssid |-> s, psk |-> p]
\* no file
ConfMissing == [exists |-> FALSE, networks |-> <<>>]
\* a file without a network block
ConfEmpty == [exists |-> TRUE, networks |-> <<>>]
\* one protected network
ConfHome == [exists |-> TRUE, networks |-> <<Net("home", "pw1")>>]
\* an open network, then a protected one
ConfCafeHome == [exists |-> TRUE, networks |-> <<Net("cafe", ""), Net("home", "pw1")>>]
ConfFiles == {ConfMissing, ConfEmpty, ConfHome, ConfCafeHome}

VARIABLES
    \* StreamingService
    state,              \* _state
    start_time,         \* _start_time
    error_message,      \* _error_message
    timeout_task,       \* _timeout_task
    client_check_task,  \* _client_check_task
    notified,           \* what the on_state_change callback was handed, in order,
                        \* since the last start that passed the guard
    \* settings
    max_duration,       \* settings.STREAM_TIMEOUT
    client_timeout,     \* settings.STREAM_CLIENT_TIMEOUT
    horizon,            \* the last instant the clock of this run reaches
    \* CameraService, ConnectivityServer, MJPEGServer, AudioServer
    cam_running,        \* camera_service.is_running
    conn_running,       \* connectivity_server.is_running
    video_running,      \* mjpeg_server.is_running
    video_site,         \* mjpeg_server._site is a listening site
    video_clients,      \* len(mjpeg_server._clients)
    audio_running,      \* audio_server.is_running
    audio_server,       \* audio_server._server is a listening server
    audio_clients,      \* len(audio_server._clients)
    \* APManager and the operating system
    ap_state,           \* ap_manager.state
    saved_credentials,  \* ap_manager.saved_credentials
    wpa_conf,           \* the supplicant's configuration file
    used_credentials,   \* the network the restarted supplicant last joined with
    hostapd,            \* an AP daemon process is alive
    dnsmasq,            \* a DHCP server process is alive
    \* the event loop
    running,            \* the task that holds the loop
    now,                \* time.time()
    pc,                 \* where each task resumes
    kind,               \* "start" or "stop" for a control task
    result,             \* how each task's coroutine ended
    calls,              \* the operations each task invoked, in order
    exc,                \* the message of the exception a task is raising
    in_cleanup,         \* the task is inside _cleanup
    attempt,            \* restore_wifi's loop variable
    cancel_pending,     \* Task.cancel() hit the task while it was running
    wake,               \* when the task's asyncio.sleep ends
    no_client_start,    \* _client_monitor's local
    overlap,            \* another request or monitor stop ran during the task
    faults,             \* how many operations have failed so far
    \* the clients as the session saw them
    zero_at,            \* when the client count fell to 0 in ACTIVE (NoneTime: it has not)
    last_seen,          \* when _client_monitor last found a client (NoneTime: never)
    timer_dropped,      \* _client_monitor has unset a no-client timer that was running
    \* the manager's files and its direct callers
    ap_files,           \* hostapd.conf or dnsmasq.conf exists
    reply               \* what the last query or direct call of the manager returned

orch == <<state, start_time, error_message, timeout_task, client_check_task, notified>>
conf == <<max_duration, client_timeout, horizon, wpa_conf>>
servers == <<cam_running, conn_running, video_running, video_site, video_clients,
             audio_running, audio_server, audio_clients>>
apm == <<ap_state, saved_credentials, used_credentials, hostapd, dnsmasq>>
loop == <<running, now, pc, kind, result, calls, exc, in_cleanup, attempt,
          cancel_pending, wake, no_client_start, overlap>>
watch == <<zero_at, last_seen, timer_dropped>>
api == <<ap_files, reply>>
vars == <<orch, conf, servers, apm, loop, faults, watch, api>>

(***************************************************************************)
(* Helpers.                                                                *)
(***************************************************************************)
CanRun(self) == running \in {NoTask, self}

IsMonitor(self) == self \in TmonTasks \cup CmonTasks

\* The pcs of stop_streaming and of what it calls.
StopPcs == {"stop_entry", "cl_video", "video_stop", "cl_audio", "audio_stop",
            "cl_conn", "conn_stop", "cl_ap", "stop_ap", "restore", "fallback",
            "restore_ret", "cleanup_ret"}

\* A request in progress, or a monitor inside stop_streaming.
Busy(u) ==
    IF u \in CtlTasks THEN pc[u] \notin {"idle", "done"}
    ELSE pc[u] \in StopPcs

\* The snapshot main_service._on_stream_state_change reads through
\* get_status_dict when the setter calls it.
Snapshot(new, err, st) == [state |-> new, error_message |-> err, start_time |-> st]

\* A setter that calls the callback before it stores the new state: the
\* callback's get_status_dict reads the old one.
SetStateLogStale(new, err, st) ==
    IF new # state THEN Append(notified, Snapshot(state, err, st)) ELSE notified

\* The state setter: a change of state is stored and handed to the callback.
SetStateLog(new, err, st) ==
    IF new # state THEN Append(notified, Snapshot(new, err, st)) ELSE notified

Called(self, op) == [calls EXCEPT ![self] = Append(@, op)]


\* How an operation that can fail may end: TRUE is success.  The number of
\* failures over a run is bounded.
Outcomes == IF faults < MaxFaults THEN BOOLEAN ELSE {TRUE}

\* The failure count after an operation that ended with `ok`.
Failed(ok) == faults' = IF ok THEN faults ELSE faults + 1

\* A task's coroutine ends: returned a value, raised, or was cancelled.
Finish(self, res) ==
    /\ pc' = [pc EXCEPT ![self] = "done"]
    /\ result' = [result EXCEPT ![self] = res]
    /\ running' = NoTask

\* The task goes on synchronously at `next`.
Goto(self, next) ==
    /\ pc' = [pc EXCEPT ![self] = next]
    /\ running' = self

\* The task suspends; it resumes at `next`.
Await(self, next) ==
    /\ pc' = [pc EXCEPT ![self] = next]
    /\ running' = NoTask

(***************************************************************************)
(* The state after StreamingService.__init__ and APManager.__init__, with   *)
(* `file` as the supplicant's configuration file, `duration` and `idle` as *)
(* the two configured timeouts, and a clock that runs up to `last`.        *)
(***************************************************************************)
Configured(file, duration, idle, last) ==
    /\ state = IDLE
    /\ start_time = 0
    /\ error_message = ""
    /\ timeout_task = NoTask
    /\ client_check_task = NoTask
    /\ notified = <<>>
    /\ max_duration = duration
    /\ client_timeout = idle
    /\ horizon = last
    /\ cam_running = FALSE
    /\ conn_running = FALSE
    /\ video_running = FALSE
    /\ video_site = FALSE
    /\ video_clients = 0
    /\ audio_running = FALSE
    /\ audio_server = FALSE
    /\ audio_clients = 0
    /\ ap_state = CLIENT_MODE
    /\ saved_credentials = NoCreds
    /\ wpa_conf = file
    /\ used_credentials = NoCreds
    /\ hostapd = FALSE
    /\ dnsmasq = FALSE
    /\ running = NoTask
    /\ now = 1
    /\ pc = [u \in Procs |-> "idle"]
    /\ kind = [u \in Procs |-> IF u \in CtlTasks THEN "none" ELSE u[1]]
    /\ result = [u \in Procs |-> "none"]
    /\ calls = [u \in Procs |-> <<>>]
    /\ exc = [u \in Procs |-> ""]
    /\ in_cleanup = [u \in Procs |-> FALSE]
    /\ attempt = [u \in Procs |-> 0]
    /\ cancel_pending = [u \in Procs |-> FALSE]
    /\ wake = [u \in Procs |-> 0]
    /\ no_client_start = [u \in Procs |-> NoneTime]
    /\ overlap = [u \in Procs |-> FALSE]
    /\ faults = 0
    /\ zero_at = NoneTime
    /\ last_seen = NoneTime
    /\ timer_dropped = FALSE
    /\ ap_files = FALSE
    /\ reply = NoReply

\* The boot with the timeouts of Durations and ClientTimeouts and the short
\* clock.
Boot(file) ==
    \E duration \in Durations, idle \in ClientTimeouts :
        Configured(file, duration, idle, MaxTime)

Init == Boot(ConfCafeHome)

(***************************************************************************)
(* The control channel.                                                    *)
(***************************************************************************)
\* ble_service._handle_start_stream / _handle_stop_stream: the command's
\* coroutine is handed to the loop as a new task.
\* What is remembered of a task is dropped once it has ended and another
\* request arrives: the record of its calls, its result, its kind.
Request(i, k) ==
    /\ running = NoTask
    /\ pc[Ctl(i)] = "idle"
    /\ \A j \in TaskIds : j < i => pc[Ctl(j)] # "idle"
    /\ kind' = [u \in Procs |->
                  IF u = Ctl(i) THEN k
                  ELSE IF u \in CtlTasks /\ pc[u] = "done" THEN "none"
                  ELSE kind[u]]
    /\ pc' = [pc EXCEPT ![Ctl(i)] = IF k = "start" THEN "start_entry" ELSE "stop_entry"]
    /\ overlap' = [u \in Procs |->
                     IF u = Ctl(i) THEN \E v \in Procs : Busy(v)
                     ELSE IF pc[u] = "done" THEN FALSE
                     ELSE overlap[u] \/ Busy(u)]
    /\ result' = [u \in Procs |-> IF pc[u] = "done" THEN "none" ELSE result[u]]
    /\ calls' = [u \in Procs |-> IF pc[u] = "done" THEN <<>> ELSE calls[u]]
    /\ UNCHANGED <<orch, conf, servers, apm, running, now, exc, in_cleanup,
                   attempt, cancel_pending, wake, no_client_start>>
    /\ UNCHANGED faults
    /\ UNCHANGED watch
    /\ UNCHANGED api

\* A request sent once the one before it has been answered.
RequestInTurn(i, k) ==
    /\ \A u \in CtlTasks : ~Busy(u)
    /\ Request(i, k)

(***************************************************************************)
(* StreamingService.start_streaming                                        *)
(***************************************************************************)
\* A guard that also lets a start through while a session is up.
StartAllowedWhileReady == state \in {IDLE, ERROR, READY}

\* The guard of start_streaming.
StartAllowed == state \in {IDLE, ERROR}

\* The guard, then self.state = PREPARING and the reset of the message.  The
\* callback runs inside the setter, before the message is reset.
StartEntry(self) ==
    /\ CanRun(self)
    /\ pc[self] = "start_entry"
    /\ IF ~StartAllowed
       THEN /\ Finish(self, "false")
            /\ UNCHANGED <<state, notified, error_message, watch>>
       ELSE /\ state' = PREPARING
            /\ notified' = <<Snapshot(PREPARING, error_message, start_time)>>
            /\ error_message' = ""
            /\ zero_at' = NoneTime
            /\ last_seen' = NoneTime
            /\ timer_dropped' = FALSE
            /\ Goto(self, "camera")
            /\ UNCHANGED result
    /\ UNCHANGED <<start_time, timeout_task, client_check_task, conf, servers, apm,
                   now, kind, calls, exc, in_cleanup, attempt, cancel_pending,
                   wake, no_client_start, overlap>>
    /\ UNCHANGED faults
    /\ UNCHANGED api

\* The task awaits the closing of a site or a server, and resumes at `next`.
\* Such an await may return without suspending; a task with a cancellation
\* pending then goes on, while one that suspends is cancelled there.
AwaitClose(self, next) ==
    \/ Await(self, next)
    \/ cancel_pending[self] /\ Goto(self, next)

\* A failed step that is waited on for ever instead of being raised.
RaiseNever(self, msg) ==
    /\ exc' = [exc EXCEPT ![self] = msg]
    /\ Await(self, "hung")

\* An exception raised inside the try block of start_streaming.
Raise(self, msg) ==
    /\ exc' = [exc EXCEPT ![self] = msg]
    /\ Goto(self, "except")

\* A step 1 that is followed by start_ap at once, the backup of the
\* credentials left out.
CameraSkipsBackup(self) ==
    /\ CanRun(self)
    /\ pc[self] = "camera"
    /\ IF cam_running
       THEN /\ Goto(self, "start_ap")
            /\ UNCHANGED <<cam_running, calls, exc, faults>>
       ELSE /\ calls' = Called(self, "camera_start")
            /\ \E ok \in Outcomes :
                 /\ Failed(ok)
                 /\ IF ok
                    THEN cam_running' = TRUE /\ Goto(self, "start_ap") /\ UNCHANGED exc
                    ELSE UNCHANGED cam_running /\ Raise(self, "Failed to start camera service")
    /\ UNCHANGED <<orch, conf, conn_running, video_running, video_site, video_clients,
                   audio_running, audio_server, audio_clients, apm, now, kind,
                   result, in_cleanup, attempt, cancel_pending, wake,
                   no_client_start, overlap>>
    /\ UNCHANGED watch
    /\ UNCHANGED api

\* Step 1: the camera is started when it is not running.  CameraService.start
\* has no await: it returns without giving up the loop.
Camera(self) ==
    /\ CanRun(self)
    /\ pc[self] = "camera"
    /\ IF cam_running
       THEN /\ Goto(self, "save_creds")
            /\ UNCHANGED <<cam_running, calls, exc, faults>>
       ELSE /\ calls' = Called(self, "camera_start")
            /\ \E ok \in Outcomes :
                 /\ Failed(ok)
                 /\ IF ok
                    THEN cam_running' = TRUE /\ Goto(self, "save_creds") /\ UNCHANGED exc
                    ELSE UNCHANGED cam_running /\ Raise(self, "Failed to start camera service")
    /\ UNCHANGED <<orch, conf, conn_running, video_running, video_site, video_clients,
                   audio_running, audio_server, audio_clients, apm, now, kind,
                   result, in_cleanup, attempt, cancel_pending, wake,
                   no_client_start, overlap>>
    /\ UNCHANGED watch
    /\ UNCHANGED api

\* re.search(r'ssid="([^"]+)"', content): the first quoted ssid of the file.
RECURSIVE FirstSsid(_)
FirstSsid(nets) ==
    IF nets = <<>> THEN ""
    ELSE IF Head(nets).ssid # "" THEN Head(nets).ssid
    ELSE FirstSsid(Tail(nets))

\* re.search(r'psk="([^"]+)"', content): the first quoted psk of the file,
\* whichever block holds it.
RECURSIVE FirstPsk(_)
FirstPsk(nets) ==
    IF nets = <<>> THEN ""
    ELSE IF Head(nets).psk # "" THEN Head(nets).psk
    ELSE FirstPsk(Tail(nets))

\* What save_wifi_credentials leaves in saved_credentials for a file it read.
ParsedCredentials(file) ==
    IF file.exists /\ FirstSsid(file.networks) # ""
    THEN [ssid |-> FirstSsid(file.networks), password |-> FirstPsk(file.networks)]
    ELSE saved_credentials

\* A save_wifi_credentials for which a missing file is an error like any
\* other.
SaveOutcomesMissingFails == Outcomes

\* How save_wifi_credentials can end.  Without a supplicant file it returns
\* True before it opens anything; with one, reading it or writing the backup
\* file may fail and the method then returns False.
SaveOutcomes == IF wpa_conf.exists THEN Outcomes ELSE {TRUE}

\* Step 2: APManager.save_wifi_credentials (synchronous).
SaveCreds(self) ==
    /\ CanRun(self)
    /\ pc[self] = "save_creds"
    /\ calls' = Called(self, "save_wifi_credentials")
    /\ \E io_ok \in SaveOutcomes :
         /\ Failed(io_ok)
         /\ IF io_ok
            THEN /\ saved_credentials' = ParsedCredentials(wpa_conf)
                 /\ Goto(self, "start_ap")
                 /\ UNCHANGED exc
            ELSE /\ UNCHANGED saved_credentials
                 /\ Raise(self, "Failed to save Wi-Fi credentials")
    /\ UNCHANGED <<orch, conf, servers, ap_state, used_credentials, hostapd, dnsmasq,
                   now, kind, result, in_cleanup, attempt, cancel_pending, wake,
                   no_client_start, overlap>>
    /\ UNCHANGED watch
    /\ UNCHANGED api

\* A start_ap that returns False from a failed configuration write as it
\* stands: still AP_STARTING, client mode not restored.
StartApStaysStarting(self) ==
    /\ CanRun(self)
    /\ pc[self] = "start_ap"
    /\ calls' = Called(self, "start_ap")
    /\ IF ap_state = AP_READY
       THEN /\ Await(self, "conn_start")
            /\ UNCHANGED <<ap_state, exc, faults, ap_files>>
       ELSE \E files_ok \in Outcomes :
              /\ Failed(files_ok)
              /\ ap_state' = AP_STARTING
              /\ ap_files' \in (IF files_ok THEN {TRUE} ELSE {ap_files, TRUE})
              /\ IF files_ok
                 THEN Await(self, "ap_cmds") /\ UNCHANGED exc
                 ELSE Raise(self, "Failed to start AP mode")
    /\ UNCHANGED <<orch, conf, servers, saved_credentials, used_credentials, hostapd,
                   dnsmasq, now, kind, result, in_cleanup, attempt,
                   cancel_pending, wake, no_client_start, overlap>>
    /\ UNCHANGED watch
    /\ UNCHANGED reply

\* Step 3, APManager.start_ap up to its first command: the early return when
\* the AP is up, else AP_STARTING and the two configuration files, whose
\* writing may fail: the first file then may or may not have been written.
StartAp(self) ==
    /\ CanRun(self)
    /\ pc[self] = "start_ap"
    /\ calls' = Called(self, "start_ap")
    /\ IF ap_state = AP_READY
       THEN /\ Await(self, "conn_start")
            /\ UNCHANGED <<ap_state, faults, ap_files>>
       ELSE \E files_ok \in Outcomes :
              /\ Failed(files_ok)
              /\ IF files_ok
                 THEN /\ ap_state' = AP_STARTING
                      /\ ap_files' = TRUE
                      /\ Await(self, "ap_cmds")
                 ELSE /\ ap_state' = AP_FAILED
                      /\ ap_files' \in {ap_files, TRUE}
                      /\ Goto(self, "restore_wifi")
    /\ UNCHANGED <<orch, conf, servers, saved_credentials, used_credentials, hostapd,
                   dnsmasq, now, kind, result, exc, in_cleanup, attempt,
                   cancel_pending, wake, no_client_start, overlap>>
    /\ UNCHANGED watch
    /\ UNCHANGED reply

\* How the command sequence of start_ap can end: every fatal command
\* succeeded, or the AP daemon did not launch, or the DHCP server did not
\* launch, or the AP daemon was gone at the liveness check.
ApOutcomes == {"ok", "hostapd_failed", "dnsmasq_failed", "hostapd_died"}

\* A start_ap whose except branch returns without restoring client mode.
ApCmdsNoRestore(self) ==
    /\ CanRun(self)
    /\ pc[self] = "ap_cmds"
    /\ calls' = Called(self, "hostapd")
    /\ \E outcome \in (IF TRUE \in Outcomes /\ FALSE \in Outcomes THEN ApOutcomes ELSE {"ok"}) :
         /\ Failed(outcome = "ok")
         /\ hostapd' = (outcome \in {"ok", "dnsmasq_failed"})
         /\ dnsmasq' = (outcome \in {"ok", "hostapd_died"})
         /\ IF outcome = "ok"
            THEN ap_state' = AP_READY /\ Await(self, "conn_start") /\ UNCHANGED exc
            ELSE ap_state' = AP_FAILED /\ Raise(self, "Failed to start AP mode")
    /\ UNCHANGED <<orch, conf, servers, saved_credentials, used_credentials, now,
                   kind, result, in_cleanup, attempt, cancel_pending,
                   wake, no_client_start, overlap>>
    /\ UNCHANGED watch
    /\ UNCHANGED api

\* start_ap from its first command to its return or its except branch.  Stray
\* daemons are killed (step 4) before the new ones are launched.
ApCmds(self) ==
    /\ CanRun(self)
    /\ pc[self] = "ap_cmds"
    /\ calls' = Called(self, "hostapd")
    /\ \E outcome \in (IF TRUE \in Outcomes /\ FALSE \in Outcomes THEN ApOutcomes ELSE {"ok"}) :
         /\ Failed(outcome = "ok")
         /\ hostapd' = (outcome \in {"ok", "dnsmasq_failed"})
         /\ dnsmasq' = (outcome \in {"ok", "hostapd_died"})
         /\ IF outcome = "ok"
            THEN ap_state' = AP_READY /\ Await(self, "conn_start")
            ELSE ap_state' = AP_FAILED /\ Goto(self, "restore_wifi")
    /\ UNCHANGED <<orch, conf, servers, saved_credentials, used_credentials, now,
                   kind, result, exc, in_cleanup, attempt, cancel_pending,
                   wake, no_client_start, overlap>>
    /\ UNCHANGED watch
    /\ UNCHANGED api

(***************************************************************************)
(* APManager.restore_wifi                                                  *)
(***************************************************************************)
\* A retry loop that makes one attempt too many.
NextAttemptOffByOne(n) ==
    IF n <= STREAM_WIFI_RESTORE_RETRIES THEN "restore" ELSE "fallback"

\* for attempt in range(retries): after n passes the loop makes another, or
\* is left for the final fallback.
NextAttempt(n) ==
    IF n < STREAM_WIFI_RESTORE_RETRIES THEN "restore" ELSE "fallback"

\* restore_wifi is entered; the first command of its first attempt suspends.
RestoreWifi(self) ==
    /\ CanRun(self)
    /\ pc[self] = "restore_wifi"
    /\ calls' = Called(self, "restore_wifi")
    /\ attempt' = [attempt EXCEPT ![self] = 0]
    /\ Await(self, NextAttempt(0))
    /\ UNCHANGED <<orch, conf, servers, apm, now, kind, result, exc, in_cleanup,
                   cancel_pending, wake, no_client_start, overlap>>
    /\ UNCHANGED faults
    /\ UNCHANGED watch
    /\ UNCHANGED api

\* The networks the restarted supplicant can join with: the blocks of its
\* configuration file.  restore_wifi hands it nothing else.
SupplicantChoices ==
    IF wpa_conf.exists /\ wpa_conf.networks # <<>>
    THEN {[ssid |-> wpa_conf.networks[k].ssid, password |-> wpa_conf.networks[k].psk] :
             k \in DOMAIN wpa_conf.networks}
    ELSE {NoCreds}

\* A retry loop that sets the state when it finds an address and goes on
\* with the next pass all the same.
RestoreAttemptKeepsTrying(self) ==
    /\ CanRun(self)
    /\ pc[self] = "restore"
    /\ UNCHANGED calls
    /\ used_credentials' \in SupplicantChoices
    /\ \E has_address \in BOOLEAN :
         /\ ap_state' = IF has_address THEN CLIENT_MODE ELSE ap_state
         /\ attempt' = [attempt EXCEPT ![self] = @ + 1]
         /\ Await(self, NextAttempt(attempt[self] + 1))
    /\ UNCHANGED <<orch, conf, servers, saved_credentials, hostapd, dnsmasq, now,
                   kind, result, exc, in_cleanup, cancel_pending, wake,
                   no_client_start, overlap>>
    /\ UNCHANGED faults
    /\ UNCHANGED watch
    /\ UNCHANGED api

\* One pass of the retry loop: the interface is handed back, the supplicant
\* restarted, a lease requested, and the address checked.  _run_command_async
\* turns every failure of a command into a (False, text) result, so the loop's
\* except branch has nothing to catch.
RestoreAttempt(self) ==
    /\ CanRun(self)
    /\ pc[self] = "restore"
    /\ UNCHANGED calls
    /\ used_credentials' \in SupplicantChoices
    /\ \E has_address \in BOOLEAN :
         IF has_address
         THEN /\ ap_state' = CLIENT_MODE
              /\ Goto(self, "restore_ret")
              /\ UNCHANGED attempt
         ELSE /\ attempt' = [attempt EXCEPT ![self] = @ + 1]
              /\ Await(self, NextAttempt(attempt[self] + 1))
              /\ UNCHANGED ap_state
    /\ UNCHANGED <<orch, conf, servers, saved_credentials, hostapd, dnsmasq, now,
                   kind, result, exc, in_cleanup, cancel_pending, wake,
                   no_client_start, overlap>>
    /\ UNCHANGED faults
    /\ UNCHANGED watch
    /\ UNCHANGED api

\* The final fallback: the interface is taken down and up, the supplicant
\* restarted, a lease requested; the state is set without a check.
Fallback(self) ==
    /\ CanRun(self)
    /\ pc[self] = "fallback"
    /\ UNCHANGED calls
    /\ used_credentials' \in SupplicantChoices
    /\ ap_state' = CLIENT_MODE
    /\ Goto(self, "restore_ret")
    /\ UNCHANGED <<orch, conf, servers, saved_credentials, hostapd, dnsmasq, now,
                   kind, result, exc, in_cleanup, attempt, cancel_pending, wake,
                   no_client_start, overlap>>
    /\ UNCHANGED faults
    /\ UNCHANGED watch
    /\ UNCHANGED api

\* restore_wifi returns True: to start_ap's except branch, which returns
\* False and makes start_streaming raise, or to _cleanup, which is then over.
RestoreRet(self) ==
    /\ CanRun(self)
    /\ pc[self] = "restore_ret"
    /\ attempt' = [attempt EXCEPT ![self] = 0]
    /\ IF in_cleanup[self]
       THEN Goto(self, "cleanup_ret") /\ UNCHANGED exc
       ELSE Raise(self, "Failed to start AP mode")
    /\ UNCHANGED <<orch, conf, servers, apm, now, kind, result, calls, in_cleanup,
                   cancel_pending, wake, no_client_start, overlap>>
    /\ UNCHANGED faults
    /\ UNCHANGED watch
    /\ UNCHANGED api

(***************************************************************************)
(* start_streaming, after the AP is up                                     *)
(***************************************************************************)
\* Step 3.5: ConnectivityServer.start; it catches what it raises, and a
\* failure is logged and ignored.
ConnStart(self) ==
    /\ CanRun(self)
    /\ pc[self] = "conn_start"
    /\ calls' = Called(self, "connectivity_start")
    /\ IF conn_running
       THEN UNCHANGED <<conn_running, faults>>
       ELSE \E ok \in Outcomes : Failed(ok) /\ conn_running' = ok
    /\ Await(self, "video_start")
    /\ UNCHANGED <<orch, conf, cam_running, video_running, video_site, video_clients,
                   audio_running, audio_server, audio_clients, apm, now, kind,
                   result, exc, in_cleanup, attempt, cancel_pending, wake,
                   no_client_start, overlap>>
    /\ UNCHANGED watch
    /\ UNCHANGED api

\* Step 4: MJPEGServer.start.  On an exception it stops itself and returns
\* False, and start_streaming raises.
VideoStart(self) ==
    /\ CanRun(self)
    /\ pc[self] = "video_start"
    /\ calls' = Called(self, "video_start")
    /\ IF video_running
       THEN /\ Await(self, "audio_start")
            /\ UNCHANGED <<video_running, video_site, video_clients, exc, faults>>
       ELSE \E ok \in Outcomes :
              /\ Failed(ok)
              /\ IF ok /\ cam_running
                 THEN /\ video_running' = TRUE
                      /\ video_site' = TRUE
                      /\ Await(self, "audio_start")
                      /\ UNCHANGED <<video_clients, exc>>
                 ELSE /\ video_running' = FALSE
                      /\ video_site' = FALSE
                      /\ video_clients' = 0
                      /\ Raise(self, "Failed to start video server")
    /\ UNCHANGED <<orch, conf, cam_running, conn_running, audio_running, audio_server,
                   audio_clients, apm, now, kind, result, in_cleanup, attempt,
                   cancel_pending, wake, no_client_start, overlap>>
    /\ UNCHANGED watch
    /\ UNCHANGED api

\* A step 5 that treats the audio server like the video server: a failure
\* raises.
AudioStartFatal(self) ==
    /\ CanRun(self)
    /\ pc[self] = "audio_start"
    /\ calls' = Called(self, "audio_start")
    /\ IF audio_running
       THEN /\ Goto(self, "ready")
            /\ UNCHANGED <<audio_running, audio_server, audio_clients, exc, faults>>
       ELSE \E ok \in Outcomes :
              /\ Failed(ok)
              /\ audio_running' = ok
              /\ audio_server' = ok
              /\ audio_clients' = IF ok THEN audio_clients ELSE 0
              /\ IF ok
                 THEN Goto(self, "ready") /\ UNCHANGED exc
                 ELSE Raise(self, "Failed to start audio server")
    /\ UNCHANGED <<orch, conf, cam_running, conn_running, video_running, video_site,
                   video_clients, apm, now, kind, result, in_cleanup, attempt,
                   cancel_pending, wake, no_client_start, overlap>>
    /\ UNCHANGED watch
    /\ UNCHANGED api

\* Step 5: AudioServer.start; a failure is logged and ignored.
AudioStart(self) ==
    /\ CanRun(self)
    /\ pc[self] = "audio_start"
    /\ calls' = Called(self, "audio_start")
    /\ IF audio_running
       THEN UNCHANGED <<audio_running, audio_server, audio_clients, faults>>
       ELSE \E ok \in Outcomes :
              /\ Failed(ok)
              /\ audio_running' = ok
              /\ audio_server' = ok
              /\ audio_clients' = IF ok THEN audio_clients ELSE 0
    /\ Goto(self, "ready")
    /\ UNCHANGED <<orch, conf, cam_running, conn_running, video_running, video_site,
                   video_clients, apm, now, kind, result, exc, in_cleanup, attempt,
                   cancel_pending, wake, no_client_start, overlap>>
    /\ UNCHANGED watch
    /\ UNCHANGED api

\* Success: the start time, READY, _start_monitoring (two new tasks, the old
\* references overwritten), return True.
Ready(self) ==
    /\ CanRun(self)
    /\ pc[self] = "ready"
    /\ start_time' = now
    /\ state' = READY
    /\ notified' = SetStateLog(READY, error_message, now)
    /\ timeout_task' = Tmon(self[2])
    /\ client_check_task' = Cmon(self[2])
    /\ pc' = [pc EXCEPT ![self] = "done",
                        ![Tmon(self[2])] = "loop",
                        ![Cmon(self[2])] = "loop"]
    /\ result' = [result EXCEPT ![self] = "true"]
    /\ running' = NoTask
    /\ UNCHANGED <<error_message, conf, servers, apm, now, kind, calls, exc,
                   in_cleanup, attempt, cancel_pending, wake, no_client_start,
                   overlap>>
    /\ UNCHANGED faults
    /\ UNCHANGED watch
    /\ UNCHANGED api

\* An except branch that records the message and cleans up, and forgets to
\* set the state.
ExceptKeepsState(self) ==
    /\ CanRun(self)
    /\ pc[self] = "except"
    /\ error_message' = exc[self]
    /\ calls' = Called(self, "_cleanup")
    /\ in_cleanup' = [in_cleanup EXCEPT ![self] = TRUE]
    /\ exc' = [exc EXCEPT ![self] = ""]
    /\ Goto(self, "cl_video")
    /\ UNCHANGED <<state, notified, start_time, timeout_task, client_check_task,
                   conf, servers, apm, now, kind, result, attempt, cancel_pending,
                   wake, no_client_start, overlap, faults>>
    /\ UNCHANGED watch
    /\ UNCHANGED api

\* The except branch of start_streaming: the message, ERROR, then _cleanup.
Except(self) ==
    /\ CanRun(self)
    /\ pc[self] = "except"
    /\ error_message' = exc[self]
    /\ state' = ERROR
    /\ notified' = SetStateLog(ERROR, exc[self], start_time)
    /\ calls' = Called(self, "_cleanup")
    /\ in_cleanup' = [in_cleanup EXCEPT ![self] = TRUE]
    /\ exc' = [exc EXCEPT ![self] = ""]
    /\ Goto(self, "cl_video")
    /\ UNCHANGED <<start_time, timeout_task, client_check_task, conf, servers, apm,
                   now, kind, result, attempt, cancel_pending, wake,
                   no_client_start, overlap>>
    /\ UNCHANGED faults
    /\ UNCHANGED watch
    /\ UNCHANGED api

(***************************************************************************)
(* StreamingService.stop_streaming and _cleanup                            *)
(***************************************************************************)
\* The tasks _stop_monitoring cancels: the two stored references.
MonitorRefs == {timeout_task, client_check_task} \ {NoTask}

\* The guard of stop_streaming.
AlreadyStopped == state = IDLE

\* The guard, STOPPING, _stop_monitoring, and the call of _cleanup.
\* Task.cancel() ends a suspended task at its await (both monitors catch
\* CancelledError and return); on the task that is running it only sets a
\* flag, and CancelledError is thrown into that task at its next await that
\* suspends.
StopEntry(self) ==
    /\ CanRun(self)
    /\ pc[self] = "stop_entry"
    /\ IF AlreadyStopped
       THEN /\ Finish(self, "true")
            /\ UNCHANGED <<state, notified, timeout_task, client_check_task, calls,
                           in_cleanup, cancel_pending, wake, no_client_start, watch>>
       ELSE /\ state' = STOPPING
            /\ zero_at' = NoneTime
            /\ last_seen' = NoneTime
            /\ timer_dropped' = FALSE
            /\ notified' = SetStateLog(STOPPING, error_message, start_time)
            /\ cancel_pending' = [cancel_pending EXCEPT
                                    ![self] = @ \/ self \in MonitorRefs]
            /\ timeout_task' = NoTask
            /\ client_check_task' = NoTask
            /\ pc' = [u \in Procs |->
                        IF u = self THEN "cl_video"
                        ELSE IF u \in MonitorRefs /\ pc[u] # "done" THEN "done"
                        ELSE pc[u]]
            /\ result' = [u \in Procs |->
                            IF u # self /\ u \in MonitorRefs /\ pc[u] # "done"
                            THEN "cancelled" ELSE result[u]]
            /\ wake' = [u \in Procs |-> IF u \in MonitorRefs THEN 0 ELSE wake[u]]
            /\ no_client_start' = [u \in Procs |->
                                     IF u \in MonitorRefs THEN NoneTime
                                     ELSE no_client_start[u]]
            /\ running' = self
            /\ calls' = Called(self, "_cleanup")
            /\ in_cleanup' = [in_cleanup EXCEPT ![self] = TRUE]
    /\ UNCHANGED <<start_time, error_message, conf, servers, apm, now, kind, exc,
                   attempt, overlap>>
    /\ UNCHANGED faults
    /\ UNCHANGED api

\* _cleanup, video: MJPEGServer.stop clears is_running, then awaits.
ClVideo(self) ==
    /\ CanRun(self)
    /\ pc[self] = "cl_video"
    /\ IF video_running
       THEN /\ video_running' = FALSE
            /\ calls' = Called(self, "video_stop")
            /\ AwaitClose(self, "video_stop")
       ELSE /\ Goto(self, "cl_audio")
            /\ UNCHANGED <<video_running, calls>>
    /\ UNCHANGED <<orch, conf, cam_running, conn_running, video_site, video_clients,
                   audio_running, audio_server, audio_clients, apm, now, kind,
                   result, exc, in_cleanup, attempt, cancel_pending, wake,
                   no_client_start, overlap>>
    /\ UNCHANGED faults
    /\ UNCHANGED watch
    /\ UNCHANGED api

\* The rest of MJPEGServer.stop: the clients are dropped, then the site and
\* the runner are shut down outside any try: what they raise leaves stop,
\* _cleanup and the coroutine that called it.
VideoStop(self) ==
    /\ CanRun(self)
    /\ pc[self] = "video_stop"
    /\ cancel_pending[self] => running = self
    /\ video_clients' = 0
    /\ \E ok \in Outcomes :
         /\ Failed(ok)
         /\ IF ok
            THEN /\ video_site' = FALSE
                 /\ Goto(self, "cl_audio")
                 /\ UNCHANGED <<result, in_cleanup>>
            ELSE /\ UNCHANGED video_site
                 /\ in_cleanup' = [in_cleanup EXCEPT ![self] = FALSE]
                 /\ Finish(self, "raised")
    /\ UNCHANGED <<orch, conf, cam_running, conn_running, video_running,
                   audio_running, audio_server, audio_clients, apm, now, kind,
                   calls, exc, attempt, cancel_pending, wake, no_client_start,
                   overlap>>
    /\ UNCHANGED watch
    /\ UNCHANGED api

\* _cleanup, audio: AudioServer.stop clears is_running, then awaits.
ClAudio(self) ==
    /\ CanRun(self)
    /\ pc[self] = "cl_audio"
    /\ IF audio_running
       THEN /\ audio_running' = FALSE
            /\ calls' = Called(self, "audio_stop")
            /\ AwaitClose(self, "audio_stop")
       ELSE /\ Goto(self, "cl_conn")
            /\ UNCHANGED <<audio_running, calls>>
    /\ UNCHANGED <<orch, conf, cam_running, conn_running, video_running, video_site,
                   video_clients, audio_server, audio_clients, apm, now, kind,
                   result, exc, in_cleanup, attempt, cancel_pending, wake,
                   no_client_start, overlap>>
    /\ UNCHANGED faults
    /\ UNCHANGED watch
    /\ UNCHANGED api

\* The rest of AudioServer.stop: the clients are closed, then the server is
\* closed and waited for outside any try.
AudioStop(self) ==
    /\ CanRun(self)
    /\ pc[self] = "audio_stop"
    /\ cancel_pending[self] => running = self
    /\ audio_clients' = 0
    /\ \E ok \in Outcomes :
         /\ Failed(ok)
         /\ IF ok
            THEN /\ audio_server' = FALSE
                 /\ Goto(self, "cl_conn")
                 /\ UNCHANGED <<result, in_cleanup>>
            ELSE /\ UNCHANGED audio_server
                 /\ in_cleanup' = [in_cleanup EXCEPT ![self] = FALSE]
                 /\ Finish(self, "raised")
    /\ UNCHANGED <<orch, conf, cam_running, conn_running, video_running, video_site,
                   video_clients, audio_running, apm, now, kind, calls, exc,
                   attempt, cancel_pending, wake, no_client_start, overlap>>
    /\ UNCHANGED watch
    /\ UNCHANGED api

\* _cleanup, captive portal.
ClConn(self) ==
    /\ CanRun(self)
    /\ pc[self] = "cl_conn"
    /\ IF conn_running
       THEN /\ calls' = Called(self, "connectivity_stop")
            /\ AwaitClose(self, "conn_stop")
       ELSE /\ Goto(self, "cl_ap")
            /\ UNCHANGED calls
    /\ UNCHANGED <<orch, conf, servers, apm, now, kind, result, exc, in_cleanup,
                   attempt, cancel_pending, wake, no_client_start, overlap>>
    /\ UNCHANGED faults
    /\ UNCHANGED watch
    /\ UNCHANGED api

\* ConnectivityServer.stop: is_running is cleared at the end of its try; an
\* exception is caught and logged, and leaves is_running set.
ConnStop(self) ==
    /\ CanRun(self)
    /\ pc[self] = "conn_stop"
    /\ cancel_pending[self] => running = self
    /\ \E ok \in Outcomes : Failed(ok) /\ conn_running' = ~ok
    /\ Goto(self, "cl_ap")
    /\ UNCHANGED <<orch, conf, cam_running, video_running, video_site, video_clients,
                   audio_running, audio_server, audio_clients, apm, now, kind,
                   result, calls, exc, in_cleanup, attempt, cancel_pending, wake,
                   no_client_start, overlap>>
    /\ UNCHANGED watch
    /\ UNCHANGED api

\* APManager.is_ap_active
IsApActive == ap_state = AP_READY

\* A _cleanup that restores client mode at once when the AP is active,
\* without stop_ap.
ClApRestoresFirst(self) ==
    /\ CanRun(self)
    /\ pc[self] = "cl_ap"
    /\ IF IsApActive
       THEN Goto(self, "restore_wifi")
       ELSE Goto(self, "cleanup_ret")
    /\ UNCHANGED <<orch, conf, servers, apm, now, kind, result, calls, exc, in_cleanup,
                   attempt, cancel_pending, wake, no_client_start, overlap>>
    /\ UNCHANGED faults
    /\ UNCHANGED watch
    /\ UNCHANGED api

\* _cleanup, AP: when the AP is active, stop_ap (AP_STOPPING, then its
\* commands) and after it restore_wifi.
ClAp(self) ==
    /\ CanRun(self)
    /\ pc[self] = "cl_ap"
    /\ IF IsApActive
       THEN /\ ap_state' = AP_STOPPING
            /\ calls' = Called(self, "stop_ap")
            /\ Await(self, "stop_ap")
       ELSE /\ Goto(self, "cleanup_ret")
            /\ UNCHANGED <<ap_state, calls>>
    /\ UNCHANGED <<orch, conf, servers, saved_credentials, used_credentials, hostapd,
                   dnsmasq, now, kind, result, exc, in_cleanup, attempt,
                   cancel_pending, wake, no_client_start, overlap>>
    /\ UNCHANGED faults
    /\ UNCHANGED watch
    /\ UNCHANGED api

\* stop_ap's commands: both daemons are killed and the configuration files
\* removed; its result is not read.  _cleanup goes on with restore_wifi.
StopAp(self) ==
    /\ CanRun(self)
    /\ pc[self] = "stop_ap"
    /\ ~cancel_pending[self]
    /\ hostapd' = FALSE
    /\ dnsmasq' = FALSE
    /\ ap_files' = FALSE
    /\ Goto(self, "restore_wifi")
    /\ UNCHANGED <<orch, conf, servers, ap_state, saved_credentials,
                   used_credentials, now, kind, result, calls, exc, in_cleanup,
                   attempt, cancel_pending, wake, no_client_start, overlap>>
    /\ UNCHANGED faults
    /\ UNCHANGED watch
    /\ UNCHANGED reply

\* The awaits of _cleanup a pending cancellation can be delivered at.  A
\* command of stop_ap is a subprocess and always suspends.
AwaitPcs == {"video_stop", "audio_stop", "conn_stop", "stop_ap"}

\* CancelledError thrown into a task that cancelled itself, at an await that
\* suspends.  No except clause on the way catches it (they catch Exception)
\* before the monitor's own, which returns.  What the interrupted operation
\* had done by then is left as it is: the site or server may or may not have
\* been closed, the daemons may or may not have been killed.
Cancelled(self) ==
    /\ running = NoTask
    /\ pc[self] \in AwaitPcs
    /\ cancel_pending[self]
    /\ cancel_pending' = [cancel_pending EXCEPT ![self] = FALSE]
    /\ \E done \in BOOLEAN :
         /\ video_site' = IF pc[self] = "video_stop" /\ done THEN FALSE ELSE video_site
         /\ video_clients' = IF pc[self] = "video_stop" THEN 0 ELSE video_clients
         /\ audio_server' = IF pc[self] = "audio_stop" /\ done THEN FALSE ELSE audio_server
         /\ audio_clients' = IF pc[self] = "audio_stop" THEN 0 ELSE audio_clients
         /\ hostapd' = IF pc[self] = "stop_ap" /\ done THEN FALSE ELSE hostapd
         /\ dnsmasq' = IF pc[self] = "stop_ap" /\ done THEN FALSE ELSE dnsmasq
    /\ in_cleanup' = [in_cleanup EXCEPT ![self] = FALSE]
    /\ attempt' = [attempt EXCEPT ![self] = 0]
    /\ Finish(self, "cancelled")
    /\ UNCHANGED <<orch, conf, cam_running, conn_running, video_running,
                   audio_running, ap_state, saved_credentials, used_credentials,
                   now, kind, calls, exc, wake, no_client_start, overlap>>
    /\ UNCHANGED faults
    /\ UNCHANGED watch
    /\ UNCHANGED api

\* A stop_streaming that reaches IDLE with the start time of the session it
\* has ended.
CleanupRetKeepsStartTime(self) ==
    /\ CanRun(self)
    /\ pc[self] = "cleanup_ret"
    /\ in_cleanup' = [in_cleanup EXCEPT ![self] = FALSE]
    /\ IF kind[self] = "start"
       THEN /\ Finish(self, "false")
            /\ UNCHANGED <<state, notified, start_time>>
       ELSE /\ UNCHANGED start_time
            /\ state' = IDLE
            /\ notified' = SetStateLog(IDLE, error_message, start_time)
            /\ Finish(self, "true")
    /\ UNCHANGED <<error_message, timeout_task, client_check_task, conf, servers,
                   apm, now, kind, calls, exc, attempt, cancel_pending, wake,
                   no_client_start, overlap>>
    /\ UNCHANGED faults
    /\ UNCHANGED watch
    /\ UNCHANGED api

\* _cleanup returns.  In start_streaming's except branch the coroutine then
\* returns False; in stop_streaming the start time is reset, the state set
\* to IDLE and True returned (a monitor then leaves its loop).
CleanupRet(self) ==
    /\ CanRun(self)
    /\ pc[self] = "cleanup_ret"
    /\ in_cleanup' = [in_cleanup EXCEPT ![self] = FALSE]
    /\ IF kind[self] = "start"
       THEN /\ Finish(self, "false")
            /\ UNCHANGED <<state, notified, start_time>>
       ELSE /\ start_time' = 0
            /\ state' = IDLE
            /\ notified' = SetStateLog(IDLE, error_message, 0)
            /\ Finish(self, "true")
    /\ UNCHANGED <<error_message, timeout_task, client_check_task, conf, servers,
                   apm, now, kind, calls, exc, attempt, cancel_pending, wake,
                   no_client_start, overlap>>
    /\ UNCHANGED faults
    /\ UNCHANGED watch
    /\ UNCHANGED api

(***************************************************************************)
(* The monitors                                                            *)
(***************************************************************************)
\* The loop condition of both monitors.
IsStreaming == state \in {READY, ACTIVE}

\* The head of a monitor's while loop: sleep, or leave the loop and return.
MonitorLoop(self) ==
    /\ CanRun(self)
    /\ pc[self] = "loop"
    /\ IsMonitor(self)
    /\ IF IsStreaming
       THEN /\ wake' = [wake EXCEPT ![self] =
                          now + (IF self \in TmonTasks THEN TIMEOUT_POLL ELSE CLIENT_POLL)]
            /\ Await(self, "sleep")
            /\ UNCHANGED result
            /\ UNCHANGED no_client_start
       ELSE /\ Finish(self, "returned")
            /\ wake' = [wake EXCEPT ![self] = 0]
            /\ no_client_start' = [no_client_start EXCEPT ![self] = NoneTime]
    /\ UNCHANGED <<orch, conf, servers, apm, now, kind, calls, exc, in_cleanup,
                   attempt, cancel_pending, overlap>>
    /\ UNCHANGED faults
    /\ UNCHANGED watch
    /\ UNCHANGED api

\* A monitor calls stop_streaming: from here on it counts as a stop request in
\* progress.
CallStop(self) ==
    /\ Goto(self, "stop_entry")
    /\ calls' = Called(self, "stop_streaming")
    /\ overlap' = [u \in Procs |->
                     IF u = self THEN \E v \in Procs \ {self} : Busy(v)
                     ELSE overlap[u] \/ Busy(u)]

\* A timeout test that lets a session of exactly max_duration go on.
TimedOutStrict == now - start_time > max_duration

\* The timeout test of _timeout_monitor.
TimedOut == now - start_time >= max_duration

\* _timeout_monitor after its sleep.
TimeoutWake(self) ==
    /\ running = NoTask
    /\ self \in TmonTasks
    /\ pc[self] = "sleep"
    /\ now >= wake[self]
    /\ IF TimedOut
       THEN CallStop(self)
       ELSE Goto(self, "loop") /\ UNCHANGED <<calls, overlap>>
    /\ UNCHANGED <<orch, conf, servers, apm, now, kind, result, exc, in_cleanup,
                   attempt, cancel_pending, wake, no_client_start>>
    /\ UNCHANGED faults
    /\ UNCHANGED watch
    /\ UNCHANGED api

\* A no-client timer that a poll with a client leaves running.
TimerKept(self) == no_client_start[self]

\* The no-client timer after a poll that found a client: unset.
TimerAfterClients(self) == NoneTime

\* A test of the no-client timer that lets an idle time of exactly
\* client_timeout go on.
IdleExpiredStrict(self) == now - no_client_start[self] > client_timeout

\* The no-client timer has run for client_timeout.
IdleExpired(self) == now - no_client_start[self] >= client_timeout

\* _client_monitor after its sleep: READY becomes ACTIVE with a client; with
\* none while ACTIVE the no-client timer is started, and stop_streaming is
\* called once it has run for client_timeout.
ClientWake(self) ==
    /\ running = NoTask
    /\ self \in CmonTasks
    /\ pc[self] = "sleep"
    /\ now >= wake[self]
    /\ LET total_clients == video_clients + audio_clients IN
       IF total_clients > 0
       THEN /\ state' = IF state = READY THEN ACTIVE ELSE state
            /\ notified' = IF state = READY
                           THEN SetStateLog(ACTIVE, error_message, start_time)
                           ELSE notified
            /\ no_client_start' = [no_client_start EXCEPT ![self] = TimerAfterClients(self)]
            /\ last_seen' = now
            /\ timer_dropped' = (timer_dropped \/ no_client_start[self] # NoneTime)
            /\ Goto(self, "loop")
            /\ UNCHANGED <<calls, overlap, zero_at>>
       ELSE IF state = ACTIVE
       THEN IF no_client_start[self] = NoneTime
            THEN /\ no_client_start' = [no_client_start EXCEPT ![self] = now]
                 /\ Goto(self, "loop")
                 /\ UNCHANGED <<state, notified, calls, overlap, watch>>
            ELSE IF IdleExpired(self)
            THEN /\ CallStop(self)
                 /\ UNCHANGED <<state, notified, no_client_start, watch>>
            ELSE /\ Goto(self, "loop")
                 /\ UNCHANGED <<state, notified, no_client_start, calls, overlap, watch>>
       ELSE /\ Goto(self, "loop")
            /\ UNCHANGED <<state, notified, no_client_start, calls, overlap, watch>>
    /\ UNCHANGED <<start_time, error_message, timeout_task, client_check_task, conf,
                   servers, apm, now, kind, result, exc, in_cleanup, attempt,
                   cancel_pending, wake>>
    /\ UNCHANGED faults
    /\ UNCHANGED api

(***************************************************************************)
(* The environment: streaming clients and the clock                        *)
(***************************************************************************)
\* The moment the client count fell to 0 in ACTIVE, after a client left and
\* `total` are still there.
WhenEmpty(total) == IF total = 0 /\ state = ACTIVE THEN now ELSE zero_at

\* A client opens /video: MJPEGServer._handle_video_stream adds it.
VideoConnect ==
    /\ running = NoTask
    /\ video_running /\ video_site
    /\ video_clients + audio_clients < MaxClients
    /\ video_clients' = video_clients + 1
    /\ zero_at' = NoneTime
    /\ UNCHANGED <<orch, conf, cam_running, conn_running, video_running, video_site,
                   audio_running, audio_server, audio_clients, apm, loop>>
    /\ UNCHANGED <<faults, last_seen, timer_dropped>>
    /\ UNCHANGED api

\* A video client goes away: the handler's finally discards it.
VideoDisconnect ==
    /\ running = NoTask
    /\ video_clients > 0
    /\ video_clients' = video_clients - 1
    /\ zero_at' = WhenEmpty(video_clients - 1 + audio_clients)
    /\ UNCHANGED <<orch, conf, cam_running, conn_running, video_running, video_site,
                   audio_running, audio_server, audio_clients, apm, loop>>
    /\ UNCHANGED <<faults, last_seen, timer_dropped>>
    /\ UNCHANGED api

\* A client opens the audio websocket: AudioServer._handle_client adds it.
AudioConnect ==
    /\ running = NoTask
    /\ audio_running /\ audio_server
    /\ video_clients + audio_clients < MaxClients
    /\ audio_clients' = audio_clients + 1
    /\ zero_at' = NoneTime
    /\ UNCHANGED <<orch, conf, cam_running, conn_running, video_running, video_site,
                   video_clients, audio_running, audio_server, apm, loop>>
    /\ UNCHANGED <<faults, last_seen, timer_dropped>>
    /\ UNCHANGED api

\* An audio client goes away.
AudioDisconnect ==
    /\ running = NoTask
    /\ audio_clients > 0
    /\ audio_clients' = audio_clients - 1
    /\ zero_at' = WhenEmpty(video_clients + audio_clients - 1)
    /\ UNCHANGED <<orch, conf, cam_running, conn_running, video_running, video_site,
                   video_clients, audio_running, audio_server, apm, loop>>
    /\ UNCHANGED <<faults, last_seen, timer_dropped>>
    /\ UNCHANGED api

Sleepers == {u \in Procs : pc[u] = "sleep"}

\* The pcs of a task the loop has ready to run: one just created.
ReadyPcs == {"start_entry", "stop_entry", "loop"}

\* Time passes up to the next end of a sleep.  It does not pass while a task
\* is ready to run or a monitor is due.
Tick ==
    /\ running = NoTask
    /\ Sleepers # {}
    /\ \A u \in Procs : pc[u] \notin ReadyPcs
    /\ \A u \in Sleepers : wake[u] > now
    /\ \E u \in Sleepers :
         /\ \A v \in Sleepers : wake[u] <= wake[v]
         /\ wake[u] <= horizon
         /\ now' = wake[u]
    /\ UNCHANGED <<orch, conf, servers, apm, running, pc, kind, result, calls, exc,
                   in_cleanup, attempt, cancel_pending, wake, no_client_start,
                   overlap>>
    /\ UNCHANGED faults
    /\ UNCHANGED watch
    /\ UNCHANGED api

\* The steps of the tasks and of the environment.
Step ==
    \/ \E self \in Procs : StartEntry(self)
    \/ \E self \in Procs : Camera(self)
    \/ \E self \in Procs : SaveCreds(self)
    \/ \E self \in Procs : StartAp(self)
    \/ \E self \in Procs : ApCmds(self)
    \/ \E self \in Procs : RestoreWifi(self)
    \/ \E self \in Procs : RestoreAttempt(self)
    \/ \E self \in Procs : Fallback(self)
    \/ \E self \in Procs : RestoreRet(self)
    \/ \E self \in Procs : ConnStart(self)
    \/ \E self \in Procs : VideoStart(self)
    \/ \E self \in Procs : AudioStart(self)
    \/ \E self \in Procs : Ready(self)
    \/ \E self \in Procs : Except(self)
    \/ \E self \in Procs : StopEntry(self)
    \/ \E self \in Procs : ClVideo(self)
    \/ \E self \in Procs : VideoStop(self)
    \/ \E self \in Procs : ClAudio(self)
    \/ \E self \in Procs : AudioStop(self)
    \/ \E self \in Procs : ClConn(self)
    \/ \E self \in Procs : ConnStop(self)
    \/ \E self \in Procs : ClAp(self)
    \/ \E self \in Procs : StopAp(self)
    \/ \E self \in Procs : Cancelled(self)
    \/ \E self \in Procs : CleanupRet(self)
    \/ \E self \in Procs : MonitorLoop(self)
    \/ \E self \in Procs : TimeoutWake(self)
    \/ \E self \in Procs : ClientWake(self)
    \/ VideoConnect
    \/ VideoDisconnect
    \/ AudioConnect
    \/ AudioDisconnect
    \/ Tick

\* Requests arrive one at a time: each is sent after the one before it was
\* answered.  The monitors run beside them.
Next ==
    \/ \E i \in TaskIds, k \in {"start", "stop"} : RequestInTurn(i, k)
    \/ Step

Spec == Init /\ [][Next]_vars

\* Requests arrive at any moment, also while another is being served.
NextConc ==
    \/ \E i \in 1..MaxConcurrent, k \in {"start", "stop"} : Request(i, k)
    \/ Step

SpecConc == Init /\ [][NextConc]_vars

\* Requests one at a time, with the supplicant's file drawn from ConfFiles.
InitCreds == \E file \in ConfFiles : Boot(file)

NextCreds ==
    \/ \E i \in 1..MaxCredsTasks, k \in {"start", "stop"} : RequestInTurn(i, k)
    \/ Step

SpecCreds == InitCreds /\ [][NextCreds]_vars

\* Requests one at a time, with the timeouts drawn from TimedDurations and
\* TimedClientTimeouts and the long clock.
InitTimed ==
    \E duration \in TimedDurations, idle \in TimedClientTimeouts :
        Configured(ConfCafeHome, duration, idle, MaxTimeLong)

NextTimed ==
    \/ \E i \in 1..MaxTimedTasks, k \in {"start", "stop"} : RequestInTurn(i, k)
    \/ Step

SpecTimed == InitTimed /\ [][NextTimed]_vars

\* A request sent while at most one other is being served.
RequestBeside(i, k) ==
    /\ Cardinality({u \in CtlTasks : Busy(u)}) <= 1
    /\ Request(i, k)

\* The requests of the control channel within one instant of the clock: the
\* steps of start_streaming and stop_streaming and the monitors' entry into
\* their first sleep.  No sleep ends and no client connects.
NextRace ==
    \/ \E i \in TaskIds, k \in {"start", "stop"} : RequestBeside(i, k)
    \/ \E self \in Procs : StartEntry(self)
    \/ \E self \in Procs : Camera(self)
    \/ \E self \in Procs : SaveCreds(self)
    \/ \E self \in Procs : StartAp(self)
    \/ \E self \in Procs : ApCmds(self)
    \/ \E self \in Procs : RestoreWifi(self)
    \/ \E self \in Procs : RestoreAttempt(self)
    \/ \E self \in Procs : Fallback(self)
    \/ \E self \in Procs : RestoreRet(self)
    \/ \E self \in Procs : ConnStart(self)
    \/ \E self \in Procs : VideoStart(self)
    \/ \E self \in Procs : AudioStart(self)
    \/ \E self \in Procs : Ready(self)
    \/ \E self \in Procs : Except(self)
    \/ \E self \in Procs : StopEntry(self)
    \/ \E self \in Procs : ClVideo(self)
    \/ \E self \in Procs : VideoStop(self)
    \/ \E self \in Procs : ClAudio(self)
    \/ \E self \in Procs : AudioStop(self)
    \/ \E self \in Procs : ClConn(self)
    \/ \E self \in Procs : ConnStop(self)
    \/ \E self \in Procs : ClAp(self)
    \/ \E self \in Procs : StopAp(self)
    \/ \E self \in Procs : CleanupRet(self)
    \/ \E self \in Procs : MonitorLoop(self)

SpecRace == Init /\ [][NextRace]_vars

(***************************************************************************)
(* APManager driven directly, as ap_manager.py's own test_ap does: the      *)
(* credentials are saved, the AP started, its credentials read when it is   *)
(* up, then stop_ap and restore_wifi are called whatever start_ap returned. *)
(* The driver is task <<"ctl", 1>>; start_ap is followed command by command.*)
(***************************************************************************)
TestFrame ==
    UNCHANGED <<orch, conf, servers, now, kind, result, exc, in_cleanup, attempt,
                cancel_pending, wake, no_client_start, overlap, watch>>

\* "true" / "false" for a method's boolean result.
Bool(ok) == IF ok THEN "true" ELSE "false"

\* What restore_wifi leaves behind when it returns: client mode, and the
\* supplicant restarted with a network of its file.
RestoredWifi ==
    /\ ap_state' = CLIENT_MODE
    /\ used_credentials' \in SupplicantChoices

\* asyncio.run(test_ap())
TestRun ==
    /\ running = NoTask
    /\ \A u \in Procs : pc[u] = "idle"
    /\ kind' = [kind EXCEPT ![Ctl(1)] = "test_ap"]
    /\ pc' = [pc EXCEPT ![Ctl(1)] = "t_save"]
    /\ UNCHANGED <<orch, conf, servers, apm, running, now, result, calls, exc,
                   in_cleanup, attempt, cancel_pending, wake, no_client_start,
                   overlap, faults, watch, api>>

\* manager.save_wifi_credentials(); what it returns is not read.
TestSave(self) ==
    /\ CanRun(self)
    /\ pc[self] = "t_save"
    /\ calls' = Called(self, "save_wifi_credentials")
    /\ \E io_ok \in SaveOutcomes :
         /\ Failed(io_ok)
         /\ saved_credentials' = IF io_ok THEN ParsedCredentials(wpa_conf)
                                 ELSE saved_credentials
         /\ reply' = Returned("save_wifi_credentials", Bool(io_ok))
    /\ Goto(self, "t_start")
    /\ UNCHANGED <<ap_state, used_credentials, hostapd, dnsmasq, ap_files>>
    /\ TestFrame

\* start_ap: the early return, else AP_STARTING and step 1, the two
\* configuration files.
TestStartAp(self) ==
    /\ CanRun(self)
    /\ pc[self] = "t_start"
    /\ calls' = Called(self, "start_ap")
    /\ IF ap_state = AP_READY
       THEN /\ reply' = Returned("start_ap", "true")
            /\ Goto(self, "t_creds")
            /\ UNCHANGED <<ap_state, ap_files, faults>>
       ELSE \E files_ok \in Outcomes :
              /\ Failed(files_ok)
              /\ UNCHANGED reply
              /\ IF files_ok
                 THEN /\ ap_state' = AP_STARTING
                      /\ ap_files' = TRUE
                      /\ Await(self, "t_prep")
                 ELSE /\ ap_state' = AP_FAILED
                      /\ ap_files' \in {ap_files, TRUE}
                      /\ Goto(self, "t_failed")
    /\ UNCHANGED <<saved_credentials, used_credentials, hostapd, dnsmasq>>
    /\ TestFrame

\* A start_ap that gives up when a preparing command fails.
AfterPrepFatal(ok) == IF ok THEN "t_hostapd" ELSE "t_failed"

\* Where start_ap goes on after its preparing commands: to the launch of the
\* AP daemon, whatever the commands returned (their results are not read).
AfterPrep(ok) == "t_hostapd"

\* start_ap, steps 2 to 5: the interface is taken from the network manager,
\* the supplicant stopped, stray daemons killed, the address flushed and set
\* and the interface brought up.
TestPrep(self) ==
    /\ CanRun(self)
    /\ pc[self] = "t_prep"
    /\ hostapd' = FALSE
    /\ dnsmasq' = FALSE
    /\ \E ok \in Outcomes :
         /\ Failed(ok)
         /\ Await(self, AfterPrep(ok))
    /\ UNCHANGED <<ap_state, saved_credentials, used_credentials, calls, api>>
    /\ TestFrame

\* start_ap, step 6: hostapd -B; a failure raises.
TestHostapd(self) ==
    /\ CanRun(self)
    /\ pc[self] = "t_hostapd"
    /\ calls' = Called(self, "hostapd")
    /\ \E ok \in Outcomes :
         /\ Failed(ok)
         /\ hostapd' = ok
         /\ IF ok
            THEN Await(self, "t_dnsmasq") /\ UNCHANGED ap_state
            ELSE ap_state' = AP_FAILED /\ Goto(self, "t_failed")
    /\ UNCHANGED <<saved_credentials, used_credentials, dnsmasq, api>>
    /\ TestFrame

\* start_ap, step 7: dnsmasq; a failure raises.
TestDnsmasq(self) ==
    /\ CanRun(self)
    /\ pc[self] = "t_dnsmasq"
    /\ \E ok \in Outcomes :
         /\ Failed(ok)
         /\ dnsmasq' = ok
         /\ IF ok
            THEN Await(self, "t_verify") /\ UNCHANGED ap_state
            ELSE ap_state' = AP_FAILED /\ Goto(self, "t_failed")
    /\ UNCHANGED <<saved_credentials, used_credentials, hostapd, calls, api>>
    /\ TestFrame

\* start_ap, the liveness check: pgrep hostapd; AP_READY and True, or the
\* daemon is gone and the check raises.
TestVerify(self) ==
    /\ CanRun(self)
    /\ pc[self] = "t_verify"
    /\ \E alive \in Outcomes :
         /\ Failed(alive)
         /\ hostapd' = alive
         /\ IF alive
            THEN /\ ap_state' = AP_READY
                 /\ reply' = Returned("start_ap", "true")
                 /\ Goto(self, "t_creds")
            ELSE /\ ap_state' = AP_FAILED
                 /\ UNCHANGED reply
                 /\ Goto(self, "t_failed")
    /\ UNCHANGED <<saved_credentials, used_credentials, dnsmasq, calls, ap_files>>
    /\ TestFrame

\* start_ap's except branch after AP_FAILED: restore_wifi, then False.
TestRecover(self) ==
    /\ CanRun(self)
    /\ pc[self] = "t_failed"
    /\ calls' = Called(self, "restore_wifi")
    /\ RestoredWifi
    /\ reply' = Returned("start_ap", "false")
    /\ Await(self, "t_stop")
    /\ UNCHANGED <<saved_credentials, hostapd, dnsmasq, ap_files, faults>>
    /\ TestFrame

\* if success: get_ap_credentials is printed and the AP left up for a while.
TestCreds(self) ==
    /\ CanRun(self)
    /\ pc[self] = "t_creds"
    /\ reply' = Returned("get_ap_credentials", "credentials")
    /\ Await(self, "t_stop")
    /\ UNCHANGED <<apm, calls, ap_files, faults>>
    /\ TestFrame

\* A stop_ap without its early return.
NeverClientMode == FALSE

\* The guard of stop_ap.
AlreadyClientMode == ap_state = CLIENT_MODE

\* stop_ap: the early return in client mode, else AP_STOPPING and the first
\* command.
TestStopAp(self) ==
    /\ CanRun(self)
    /\ pc[self] = "t_stop"
    /\ calls' = Called(self, "stop_ap")
    /\ IF AlreadyClientMode
       THEN /\ reply' = Returned("stop_ap", "true")
            /\ Goto(self, "t_restore")
            /\ UNCHANGED ap_state
       ELSE /\ ap_state' = AP_STOPPING
            /\ UNCHANGED reply
            /\ Await(self, "t_kill")
    /\ UNCHANGED <<saved_credentials, used_credentials, hostapd, dnsmasq, ap_files,
                   faults>>
    /\ TestFrame

\* The rest of stop_ap: both daemons killed, the configuration files
\* removed and True, or the removal raised and the except branch returns
\* False.
TestKill(self) ==
    /\ CanRun(self)
    /\ pc[self] = "t_kill"
    /\ hostapd' = FALSE
    /\ dnsmasq' = FALSE
    /\ \E io_ok \in Outcomes :
         /\ Failed(io_ok)
         /\ ap_files' = IF io_ok THEN FALSE ELSE ap_files
         /\ reply' = Returned("stop_ap", Bool(io_ok))
    /\ Goto(self, "t_restore")
    /\ UNCHANGED <<ap_state, saved_credentials, used_credentials, calls>>
    /\ TestFrame

\* manager.restore_wifi(), and test_ap is over.
TestRestore(self) ==
    /\ pc[self] = "t_restore"
    /\ CanRun(self)
    /\ calls' = Called(self, "restore_wifi")
    /\ RestoredWifi
    /\ reply' = Returned("restore_wifi", "true")
    /\ pc' = [pc EXCEPT ![self] = "done"]
    /\ running' = NoTask
    /\ UNCHANGED <<orch, conf, servers, saved_credentials, hostapd, dnsmasq, now,
                   kind, result, exc, in_cleanup, attempt, cancel_pending, wake,
                   no_client_start, overlap, faults, watch, ap_files>>

NextManager ==
    \/ TestRun
    \/ \E self \in CtlTasks : TestSave(self)
    \/ \E self \in CtlTasks : TestStartAp(self)
    \/ \E self \in CtlTasks : TestPrep(self)
    \/ \E self \in CtlTasks : TestHostapd(self)
    \/ \E self \in CtlTasks : TestDnsmasq(self)
    \/ \E self \in CtlTasks : TestVerify(self)
    \/ \E self \in CtlTasks : TestRecover(self)
    \/ \E self \in CtlTasks : TestCreds(self)
    \/ \E self \in CtlTasks : TestStopAp(self)
    \/ \E self \in CtlTasks : TestKill(self)
    \/ \E self \in CtlTasks : TestRestore(self)

\* test_ap on a system whose supplicant file is any of ConfFiles.
SpecManager == InitCreds /\ [][NextManager]_vars

(***************************************************************************)
(* The queries.  They are synchronous methods: a caller (the control        *)
(* channel's _handle_get_stream_status and _handle_get_ap_credentials, a    *)
(* loop that polls get_status) runs them between two steps of the tasks.    *)
(***************************************************************************)
QueryOps == {"get_status", "get_ap_credentials", "is_ap_active"}

\* A get_status that clears the error message it has reported.
GetStatusClearsError ==
    /\ running = NoTask
    /\ reply' = [op |-> "get_status", value |-> "",
                 status |-> Snapshot(state, error_message, start_time)]
    /\ error_message' = ""
    /\ UNCHANGED <<state, start_time, timeout_task, client_check_task, notified>>
    /\ UNCHANGED <<conf, servers, apm, loop, faults, watch, ap_files>>

\* StreamingService.get_status: the state, the start time and the error
\* message as they are, with the AP credentials and the client counts.
GetStatus ==
    /\ running = NoTask
    /\ reply' = [op |-> "get_status", value |-> "",
                 status |-> Snapshot(state, error_message, start_time)]
    /\ UNCHANGED <<orch, conf, servers, apm, loop, faults, watch, ap_files>>

\* StreamingService.get_ap_credentials, APManager.get_ap_credentials: a dict
\* built from the manager's settings.
GetApCredentials ==
    /\ running = NoTask
    /\ reply' = Returned("get_ap_credentials", "credentials")
    /\ UNCHANGED <<orch, conf, servers, apm, loop, faults, watch, ap_files>>

\* APManager.is_ap_active called from outside.
AskIsApActive ==
    /\ running = NoTask
    /\ reply' = Returned("is_ap_active", Bool(IsApActive))
    /\ UNCHANGED <<orch, conf, servers, apm, loop, faults, watch, ap_files>>

\* Requests in turn, with queries between the steps.
NextQuery ==
    \/ \E i \in 1..MaxQueryTasks, k \in {"start", "stop"} : RequestInTurn(i, k)
    \/ Step
    \/ GetStatus
    \/ GetApCredentials
    \/ AskIsApActive

SpecQuery == Init /\ [][NextQuery]_vars

(***************************************************************************)
(* Overlapping requests over seconds.  start_ap sleeps between its commands *)
(* (2 s, 1 s, 0.5 s, 0.5 s, 2 s, 1 s), so the sleep of a client monitor can *)
(* end while another startup is still inside start_ap.  The runs followed   *)
(* are those in which no operation fails.                                   *)
(***************************************************************************)
\* A client monitor's sleep ends while a startup is in start_ap's commands.
TickWhileStarting ==
    /\ running = NoTask
    /\ \E v \in CtlTasks : pc[v] = "ap_cmds"
    /\ \E u \in CmonTasks :
         /\ pc[u] = "sleep"
         /\ wake[u] > now
         /\ wake[u] <= horizon
         /\ now' = wake[u]
    /\ UNCHANGED <<orch, conf, servers, apm, running, pc, kind, result, calls, exc,
                   in_cleanup, attempt, cancel_pending, wake, no_client_start,
                   overlap, faults, watch, api>>

NextLate ==
    \/ \E i \in TaskIds, k \in {"start", "stop"} : RequestBeside(i, k)
    \/ \E self \in Procs : StartEntry(self)
    \/ \E self \in Procs : Camera(self) /\ UNCHANGED faults
    \/ \E self \in Procs : SaveCreds(self) /\ UNCHANGED faults
    \/ \E self \in Procs : StartAp(self) /\ UNCHANGED faults
    \/ \E self \in Procs : ApCmds(self) /\ UNCHANGED faults
    \/ \E self \in Procs : ConnStart(self) /\ UNCHANGED faults
    \/ \E self \in Procs : VideoStart(self) /\ UNCHANGED faults
    \/ \E self \in Procs : AudioStart(self) /\ UNCHANGED faults
    \/ \E self \in Procs : Ready(self)
    \/ \E self \in Procs : StopEntry(self)
    \/ \E self \in Procs : ClVideo(self)
    \/ \E self \in Procs : VideoStop(self) /\ UNCHANGED faults
    \/ \E self \in Procs : ClAudio(self)
    \/ \E self \in Procs : AudioStop(self) /\ UNCHANGED faults
    \/ \E self \in Procs : ClConn(self)
    \/ \E self \in Procs : ConnStop(self) /\ UNCHANGED faults
    \/ \E self \in Procs : ClAp(self)
    \/ \E self \in Procs : StopAp(self) /\ UNCHANGED faults
    \/ \E self \in Procs : RestoreWifi(self) /\ UNCHANGED faults
    \/ \E self \in Procs : RestoreAttempt(self) /\ UNCHANGED faults
    \/ \E self \in Procs : RestoreRet(self)
    \/ \E self \in Procs : CleanupRet(self)
    \/ \E self \in Procs : MonitorLoop(self)
    \/ \E self \in Procs : ClientWake(self)
    \/ VideoConnect
    \/ TickWhileStarting

SpecLate == Init /\ [][NextLate]_vars

(***************************************************************************)
(* Progress.  The event loop runs every task that is ready, and a call the  *)
(* task awaits returns: a control task that can take its next step takes it.*)
(***************************************************************************)
\* The next step of a control task's coroutine, whichever it is.
TaskStep(self) ==
    \/ StartEntry(self) \/ Camera(self) \/ SaveCreds(self) \/ StartAp(self)
    \/ ApCmds(self) \/ RestoreWifi(self) \/ RestoreAttempt(self) \/ Fallback(self)
    \/ RestoreRet(self) \/ ConnStart(self) \/ VideoStart(self) \/ AudioStart(self)
    \/ Ready(self) \/ Except(self) \/ StopEntry(self) \/ ClVideo(self)
    \/ VideoStop(self) \/ ClAudio(self) \/ AudioStop(self) \/ ClConn(self)
    \/ ConnStop(self) \/ ClAp(self) \/ StopAp(self) \/ CleanupRet(self)

\* Requests in turn, every control task taking its steps.
SpecLive ==
    /\ Init
    /\ [][NextCreds]_vars
    /\ \A self \in CtlTasks : WF_vars(TaskStep(self))

(***************************************************************************)
(* Properties.                                                             *)
(***************************************************************************)
\* The states of a sequence of callback snapshots.
StatesOf(log) == [k \in DOMAIN log |-> log[k].state]

\* How often task `self` invoked `op`.
Count(self, op) == Cardinality({k \in DOMAIN calls[self] : calls[self][k] = op})

\* The state the last STOPPING handed to the callback was entered from.
StoppingFrom ==
    LET ks == {k \in DOMAIN notified : k > 1 /\ notified[k].state = STOPPING} IN
    IF ks = {} THEN "none"
    ELSE notified[(CHOOSE k \in ks : \A j \in ks : j <= k) - 1].state

\* C1: a start request that finds the state outside {IDLE, ERROR} returns
\* False at once: the orchestrator, the servers and the AP manager are left
\* as they were (no state change, no callback), and the task has invoked
\* nothing.
C1_StartRejected ==
    [][\A self \in CtlTasks :
         (pc[self] = "start_entry" /\ pc'[self] # "start_entry"
            /\ state \notin {IDLE, ERROR})
         => /\ pc'[self] = "done"
            /\ result'[self] = "false"
            /\ calls'[self] = <<>>
            /\ UNCHANGED <<orch, servers, apm>>]_vars

\* A start request was turned down while another start was PREPARING.
C1_Witness ==
    \E self \in CtlTasks :
        /\ kind[self] = "start"
        /\ pc[self] = "done"
        /\ result[self] = "false"
        /\ calls[self] = <<>>
        /\ state = PREPARING

\* C2: a start that passed the guard and ran without another request or a
\* monitor's stop beside it ends in one of two ways: it returns True and the
\* callback has been handed exactly PREPARING, READY; or it fails and the
\* callback has been handed exactly PREPARING, ERROR and _cleanup was invoked
\* exactly once.
C2_StartSequence ==
    [][\A self \in CtlTasks :
         (kind[self] = "start" /\ pc[self] \notin {"start_entry", "done"}
            /\ pc'[self] = "done" /\ ~overlap'[self])
         => IF result'[self] = "true"
            THEN /\ StatesOf(notified') = <<PREPARING, READY>>
                 /\ Cardinality({k \in DOMAIN calls'[self] :
                                   calls'[self][k] = "_cleanup"}) = 0
            ELSE /\ StatesOf(notified') = <<PREPARING, ERROR>>
                 /\ Cardinality({k \in DOMAIN calls'[self] :
                                   calls'[self][k] = "_cleanup"}) = 1]_vars

\* A start alone failed at its video server: PREPARING, ERROR, one _cleanup.
C2_Witness ==
    \E self \in CtlTasks :
        /\ kind[self] = "start"
        /\ pc[self] = "done"
        /\ result[self] = "false"
        /\ ~overlap[self]
        /\ error_message = "Failed to start video server"
        /\ StatesOf(notified) = <<PREPARING, ERROR>>
        /\ Count(self, "_cleanup") = 1

\* C3: once the timeout monitor has called stop_streaming from READY or
\* ACTIVE, with no request beside it, and has ended, the cleanup has run to
\* its end: the servers are stopped, restore_wifi was invoked, the AP manager
\* is back in client mode, and the state is IDLE.
C3_TimeoutStopCompletes ==
    \A self \in TmonTasks :
        (pc[self] = "done" /\ Count(self, "stop_streaming") = 1
           /\ ~overlap[self] /\ StoppingFrom \in {READY, ACTIVE})
        => /\ state = IDLE
           /\ ~video_running /\ ~audio_running
           /\ Count(self, "restore_wifi") = 1
           /\ ap_state = CLIENT_MODE

\* C4: once the client monitor has called stop_streaming for want of clients,
\* with no request beside it, and has ended, the callback has been handed
\* PREPARING, READY, ACTIVE, STOPPING, IDLE.
C4_ClientIdleSequence ==
    \A self \in CmonTasks :
        (pc[self] = "done" /\ Count(self, "stop_streaming") = 1 /\ ~overlap[self])
        => StatesOf(notified) = <<PREPARING, READY, ACTIVE, STOPPING, IDLE>>

\* C5: once a stop request made in READY or ACTIVE, with no other request or
\* monitor's stop beside it, has ended, it has returned True, the state is
\* IDLE, the video, audio and connectivity servers are stopped, restore_wifi
\* was invoked and the AP manager is in client mode.
C5_StopReachesIdle ==
    \A self \in CtlTasks :
        (kind[self] = "stop" /\ pc[self] = "done" /\ ~overlap[self]
           /\ Count(self, "_cleanup") = 1 /\ StoppingFrom \in {READY, ACTIVE})
        => /\ result[self] = "true"
           /\ state = IDLE
           /\ ~video_running /\ ~audio_running /\ ~conn_running
           /\ Count(self, "restore_wifi") = 1
           /\ ap_state = CLIENT_MODE

\* C6: a task that ran _cleanup alone and was not cancelled has not ended
\* with an exception out of _cleanup, and has not left the AP active.
C6_CleanupNeverRaises ==
    \A self \in Procs :
        (pc[self] = "done" /\ Count(self, "_cleanup") = 1 /\ ~overlap[self]
           /\ result[self] # "cancelled")
        => /\ result[self] # "raised"
           /\ ap_state # AP_READY

\* C7: a stop request never ends with an exception.
C7_StopNeverErrors ==
    \A self \in CtlTasks :
        (kind[self] = "stop" /\ pc[self] = "done") => result[self] = "true"

\* C7, the second call: stop_streaming entered in IDLE returns True at once,
\* and leaves the orchestrator, the servers and the AP manager as they were.
C7_StopInIdleIsNoOp ==
    [][\A self \in Procs :
         (pc[self] = "stop_entry" /\ pc'[self] # "stop_entry" /\ state = IDLE)
         => /\ pc'[self] = "done"
            /\ result'[self] = "true"
            /\ calls'[self] = calls[self]
            /\ UNCHANGED <<orch, servers, apm>>]_vars

\* C8: a start that launched the AP daemon, alone, and failed with "Failed to start
\* AP mode" has ended in ERROR, has invoked restore_wifi, and has started
\* neither the video nor the audio server.
C8_ApLaunchFailure ==
    \A self \in CtlTasks :
        (kind[self] = "start" /\ pc[self] = "done" /\ Count(self, "hostapd") = 1
           /\ ~overlap[self] /\ error_message = "Failed to start AP mode")
        => /\ state = ERROR
           /\ result[self] = "false"
           /\ Count(self, "restore_wifi") = 1
           /\ Count(self, "video_start") = 0
           /\ Count(self, "audio_start") = 0
           /\ ~video_running /\ ~audio_running

\* The AP daemon did not launch: ERROR, restore_wifi invoked, no server.
C8_Witness ==
    \E self \in CtlTasks :
        /\ kind[self] = "start"
        /\ pc[self] = "done"
        /\ Count(self, "hostapd") = 1
        /\ ~hostapd /\ ~dnsmasq
        /\ error_message = "Failed to start AP mode"
        /\ state = ERROR
        /\ Count(self, "restore_wifi") = 1

\* C9: restore_wifi makes at most STREAM_WIFI_RESTORE_RETRIES attempts; it
\* is at its final fallback only after that many attempts failed; and when it
\* returns, after an attempt or after the fallback, the AP manager is in
\* client mode.
C9_RestoreRetries ==
    \A self \in Procs :
        /\ attempt[self] <= STREAM_WIFI_RESTORE_RETRIES
        /\ pc[self] = "restore" => attempt[self] < STREAM_WIFI_RESTORE_RETRIES
        /\ pc[self] = "fallback" => attempt[self] = STREAM_WIFI_RESTORE_RETRIES
        /\ pc[self] = "restore_ret" => ap_state = CLIENT_MODE

\* restore_wifi returns from its fallback, every attempt having failed.
C9_Witness ==
    \E self \in Procs :
        /\ pc[self] = "restore_ret"
        /\ attempt[self] = STREAM_WIFI_RESTORE_RETRIES
        /\ ap_state = CLIENT_MODE

\* C10: when credentials have been saved and the supplicant has been
\* restarted by restore_wifi, the network it joined with is the saved one.
C10_CredentialsRoundTrip ==
    (saved_credentials # NoCreds /\ used_credentials # NoCreds)
    => used_credentials = saved_credentials


\* C11: while a session is READY or ACTIVE its timeout monitor is alive, and
\* its next wake-up comes less than TIMEOUT_POLL after the session has lasted
\* max_duration: it sleeps again only when the session has lasted less than
\* max_duration, and it calls stop_streaming at its first wake-up that finds
\* max_duration reached, less than max_duration + TIMEOUT_POLL after the
\* start timestamp.
C11_TimeoutWithinPoll ==
    IsStreaming =>
        /\ timeout_task \in TmonTasks
        /\ pc[timeout_task] \in {"loop", "sleep", "stop_entry"}
        /\ pc[timeout_task] = "loop" => now - start_time < max_duration
        /\ pc[timeout_task] = "sleep" =>
             /\ wake[timeout_task] - TIMEOUT_POLL - start_time < max_duration
             /\ now <= wake[timeout_task]
        /\ pc[timeout_task] = "stop_entry" =>
             /\ now - start_time >= max_duration
             /\ now - start_time < max_duration + TIMEOUT_POLL

\* The timeout monitor calls stop_streaming at its second wake-up, 20 s into
\* a session limited to 15 s.
C11_Witness ==
    /\ IsStreaming
    /\ timeout_task \in TmonTasks
    /\ pc[timeout_task] = "stop_entry"
    /\ max_duration = 15
    /\ now - start_time = 2 * TIMEOUT_POLL

C13_TimerResetOnClient ==
    \A self \in CmonTasks :
        /\ (pc[self] \in {"loop", "sleep", "stop_entry"}
              /\ no_client_start[self] # NoneTime)
           => /\ last_seen # NoneTime
              /\ no_client_start[self] > last_seen
        /\ pc[self] = "stop_entry"
           => /\ no_client_start[self] # NoneTime
              /\ now - no_client_start[self] >= client_timeout
              /\ now - last_seen >= client_timeout + CLIENT_POLL

\* The client monitor calls stop_streaming in a session in which it had unset
\* a running timer when a client came back.
C13_Witness ==
    \E self \in CmonTasks :
        /\ pc[self] = "stop_entry"
        /\ timer_dropped
        /\ no_client_start[self] > last_seen
        /\ now - no_client_start[self] >= client_timeout

\* C14: every step that changes the state hands the new state to the
\* callback, once, in that same step (the log grows by exactly that state, or
\* starts anew with PREPARING at a start that passed the guard), and a step
\* that leaves the state alone hands the callback nothing.
C14_EveryChangeNotified ==
    [][/\ state' # state
          => /\ notified' # <<>>
             /\ notified'[Len(notified')].state = state'
             /\ \/ StatesOf(notified') = Append(StatesOf(notified), state')
                \/ state' = PREPARING /\ Len(notified') = 1
       /\ state' = state => notified' = notified]_vars

\* A whole session has been handed to the callback, state by state.
C14_Witness ==
    /\ state = IDLE
    /\ StatesOf(notified) = <<PREPARING, READY, ACTIVE, STOPPING, IDLE>>

\* The tasks inside stop_streaming, past its guard: a stop in progress.
Stoppers ==
    {u \in Procs : /\ pc[u] \in StopPcs \ {"stop_entry"}
                   /\ u \in CtlTasks => kind[u] = "stop"}

\* A monitor task is created only in a step that has entered READY.
MonitorsStartInReady ==
    \A m \in TmonTasks \cup CmonTasks :
        (pc[m] \in {"idle", "done"} /\ pc'[m] \notin {"idle", "done"})
        => /\ state' = READY
           /\ pc'[m] = "loop"

\* The step of stop_streaming that enters _cleanup has cancelled both
\* monitors: the references are dropped, and a monitor other than the caller
\* has ended.
MonitorsCancelledFirst ==
    \A self \in Procs :
        (~in_cleanup[self] /\ in_cleanup'[self] /\ pc[self] = "stop_entry")
        => /\ timeout_task' = NoTask
           /\ client_check_task' = NoTask
           /\ \A m \in {timeout_task, client_check_task} \ {NoTask, self} :
                pc'[m] = "done"

\* A monitor calls stop_streaming only while no stop is in progress.
NoStopBesideStop ==
    \A m \in TmonTasks \cup CmonTasks :
        (pc[m] = "sleep" /\ pc'[m] = "stop_entry") => Stoppers = {}

\* C15: the monitors are created only on entering READY; every stop cancels
\* them before _cleanup begins; and no monitor calls stop_streaming while a
\* stop is in progress.
C15_MonitorsBracketed ==
    [][MonitorsStartInReady /\ MonitorsCancelledFirst /\ NoStopBesideStop]_vars

\* The pcs of start_streaming's try block: from the camera check to the
\* creation of the monitors, with start_ap's own recovery.
StartupPcs == {"camera", "save_creds", "start_ap", "ap_cmds", "conn_start",
               "video_start", "audio_start", "ready"}

\* The start requests whose startup sequence is executing.
StartingUp ==
    {u \in CtlTasks :
        /\ kind[u] = "start"
        /\ \/ pc[u] \in StartupPcs
           \/ pc[u] \in {"restore_wifi", "restore", "fallback", "restore_ret"}
                /\ ~in_cleanup[u]}

\* C16: at no moment are two startup sequences executing.
C16_OneStartupAtATime == Cardinality(StartingUp) <= 1

\* C17: every step that enters ERROR leaves PREPARING.
C17_ErrorOnlyFromPreparing ==
    [][state' = ERROR /\ state # ERROR => state = PREPARING]_vars

\* C18: every step that enters STOPPING leaves READY or ACTIVE, so a stop
\* requested in PREPARING or ERROR does not enter STOPPING.
C18_StoppingOnlyFromStreaming ==
    [][state' = STOPPING /\ state # STOPPING => state \in {READY, ACTIVE}]_vars

\* C19: whenever the state is IDLE the start timestamp is 0 and the error
\* message is empty, in the service and in every snapshot the callback was
\* handed on entering IDLE.
C19_IdleIsClean ==
    /\ state = IDLE => start_time = 0 /\ error_message = ""
    /\ \A k \in DOMAIN notified :
          notified[k].state = IDLE =>
              notified[k].start_time = 0 /\ notified[k].error_message = ""

\* C20: a start that reaches the captive-portal step or the audio step leaves
\* it for the next step whatever the server answered, with no exception and
\* the state untouched; and a start that has passed the audio step returns
\* True in READY without having called _cleanup.
C20_PortalAndAudioNonFatal ==
    [][\A u \in CtlTasks :
         kind[u] = "start" =>
           /\ pc[u] = "conn_start" /\ pc'[u] # "conn_start" =>
                 pc'[u] = "video_start" /\ exc'[u] = "" /\ state' = state
           /\ pc[u] = "audio_start" /\ pc'[u] # "audio_start" =>
                 pc'[u] = "ready" /\ exc'[u] = "" /\ state' = state
           /\ pc[u] = "ready" /\ pc'[u] # "ready" =>
                 /\ pc'[u] = "done"
                 /\ result'[u] = "true"
                 /\ state' = READY
                 /\ \A k \in DOMAIN calls'[u] : calls'[u][k] # "_cleanup"]_vars

\* A start has returned True in READY although neither the captive-portal
\* responder nor the audio server came up, and it never called _cleanup.
C20_Witness ==
    \E u \in CtlTasks :
        /\ kind[u] = "start"
        /\ pc[u] = "done"
        /\ result[u] = "true"
        /\ state = READY
        /\ Count(u, "connectivity_start") = 1
        /\ Count(u, "audio_start") = 1
        /\ Count(u, "_cleanup") = 0
        /\ ~conn_running
        /\ ~audio_running
        /\ video_running

\* C21: a control task's coroutine, start_streaming or stop_streaming, ends
\* only by returning True or False.
C21_AlwaysReturnsBoolean ==
    [][\A u \in CtlTasks :
         pc[u] # "done" /\ pc'[u] = "done" => result'[u] \in {"true", "false"}]_vars

\* The operation a task invoked last.
LastCall(u) == IF calls[u] = <<>> THEN "" ELSE calls[u][Len(calls[u])]

\* C22: a start_ap that fails at a fatal step sets AP_FAILED and goes on to
\* restore_wifi without returning; start_ap returns False (start_streaming
\* then raises "Failed to start AP mode") only from the return of that
\* restore_wifi, and not in AP_STARTING.
C22_FailedApRestoresFirst ==
    [][\A u \in CtlTasks :
         kind[u] = "start" =>
           /\ pc[u] \in {"start_ap", "ap_cmds"}
                /\ pc'[u] \notin {pc[u], "ap_cmds", "conn_start"} =>
                 /\ ap_state' = AP_FAILED
                 /\ pc'[u] = "restore_wifi"
                 /\ exc'[u] = ""
           /\ exc[u] = "" /\ exc'[u] = "Failed to start AP mode" =>
                 /\ pc[u] = "restore_ret"
                 /\ LastCall(u) = "restore_wifi"
                 /\ ap_state' # AP_STARTING]_vars

\* start_ap has returned False after a failed configuration write: client
\* mode was restored first.
C22_Witness ==
    \E u \in CtlTasks :
        /\ kind[u] = "start"
        /\ pc[u] = "except"
        /\ exc[u] = "Failed to start AP mode"
        /\ Count(u, "hostapd") = 0
        /\ Count(u, "restore_wifi") = 1
        /\ ap_state = CLIENT_MODE

\* The tasks that are at one of `pcs` inside an operation of the AP manager.
InManager(pcs) == {u \in Procs : pc[u] \in pcs}

\* C23: the AP manager is in AP_STARTING only while a task runs start_ap's
\* commands, in AP_STOPPING only while a task runs stop_ap or the
\* restore_wifi after it, and in AP_FAILED only while a task is in
\* restore_wifi: a transient state always has the task that will leave it.
C23_TransientHasResolver ==
    /\ ap_state = AP_STARTING => InManager({"ap_cmds"}) # {}
    /\ ap_state = AP_STOPPING =>
         InManager({"stop_ap", "restore_wifi", "restore", "fallback"}) # {}
    /\ ap_state = AP_FAILED =>
         InManager({"restore_wifi", "restore", "fallback"}) # {}

\* C24: stop_ap called while the manager is in CLIENT_MODE returns True and
\* does nothing else: the mode stays CLIENT_MODE, no daemon is killed and no
\* configuration file is removed.
C24_StopApIdempotent ==
    [][\A u \in CtlTasks :
         pc[u] = "t_stop" /\ pc'[u] # "t_stop" /\ ap_state = CLIENT_MODE =>
           /\ reply' = Returned("stop_ap", "true")
           /\ pc'[u] = "t_restore"
           /\ ap_state' = CLIENT_MODE
           /\ UNCHANGED <<hostapd, dnsmasq, ap_files>>]_vars

\* start_ap failed at dnsmasq and restored client mode; the stop_ap that
\* followed returned True and left the running hostapd and the files alone.
C24_Witness ==
    /\ pc[Ctl(1)] = "t_restore"
    /\ reply = Returned("stop_ap", "true")
    /\ ap_state = CLIENT_MODE
    /\ hostapd
    /\ ap_files

\* C30: a failure of one of start_ap's preparing commands (detaching the
\* interface, stopping the supplicant, killing stray daemons, flushing and
\* setting the address, bringing the interface up) does not abort start_ap:
\* it goes on to launch the daemons, and when the launches and the liveness
\* check succeed it ends in AP_READY with True.
C30_PrepFailuresNotFatal ==
    [][\A u \in CtlTasks :
         /\ pc[u] = "t_prep" /\ pc'[u] # "t_prep" =>
              pc'[u] = "t_hostapd" /\ ap_state' = AP_STARTING
         /\ pc[u] = "t_hostapd" /\ pc'[u] # "t_hostapd" /\ faults' = faults =>
              pc'[u] = "t_dnsmasq" /\ ap_state' = AP_STARTING
         /\ pc[u] = "t_dnsmasq" /\ pc'[u] # "t_dnsmasq" /\ faults' = faults =>
              pc'[u] = "t_verify" /\ ap_state' = AP_STARTING
         /\ pc[u] = "t_verify" /\ pc'[u] # "t_verify" /\ faults' = faults =>
              ap_state' = AP_READY /\ reply' = Returned("start_ap", "true")]_vars

\* The AP is up although one command failed, and the failure was neither
\* the saving of the credentials nor a fatal step: it was a preparing command.
C30_Witness ==
    /\ pc[Ctl(1)] = "t_creds"
    /\ ap_state = AP_READY
    /\ reply = Returned("start_ap", "true")
    /\ faults = 1
    /\ saved_credentials # NoCreds

\* C25: save_wifi_credentials succeeds when there is no supplicant file, and
\* when the file it read holds no network: the startup goes on to start_ap
\* with no error, and no credentials are stored.
C25_NothingToBackUpIsSuccess ==
    [][\A u \in CtlTasks :
         /\ pc[u] = "save_creds" /\ pc'[u] # "save_creds"
         /\ \/ ~wpa_conf.exists
            \/ FirstSsid(wpa_conf.networks) = "" /\ faults' = faults
         => /\ pc'[u] = "start_ap"
            /\ exc'[u] = ""
            /\ error_message' = error_message
            /\ saved_credentials = NoCreds
            /\ saved_credentials' = NoCreds]_vars

\* A startup on a system without a supplicant file has come to READY, its
\* backup step done and nothing stored.
C25_Witness ==
    /\ wpa_conf = ConfMissing
    /\ state = READY
    /\ saved_credentials = NoCreds
    /\ \E u \in CtlTasks : Count(u, "save_wifi_credentials") = 1

\* C26: get_status, get_ap_credentials and is_ap_active are queries: a call
\* changes neither the AP manager's mode, the session state, the start time,
\* the error message nor the stored credentials; it hands nothing to the
\* state-change callback and neither starts nor stops a server, a daemon or
\* a task and touches no file.
C26_QueriesArePure ==
    [][reply' # reply /\ reply'.op \in QueryOps =>
         /\ UNCHANGED <<ap_state, state, start_time, error_message, saved_credentials>>
         /\ UNCHANGED <<notified, timeout_task, client_check_task>>
         /\ UNCHANGED <<servers, used_credentials, hostapd, dnsmasq, ap_files, wpa_conf>>
         /\ UNCHANGED <<pc, calls>>]_vars

\* get_status was asked in ERROR and reported the message, which is still
\* there.
C26_Witness ==
    /\ reply.op = "get_status"
    /\ reply.status.state = ERROR
    /\ reply.status.error_message # ""
    /\ state = ERROR
    /\ error_message = reply.status.error_message

\* The steps of a startup, in the order of start_streaming.
StartSteps == <<"camera_start", "save_wifi_credentials", "start_ap",
                "connectivity_start", "video_start", "audio_start">>

IsStartStep(op) == \E n \in DOMAIN StartSteps : StartSteps[n] = op

StepNo(op) == CHOOSE n \in DOMAIN StartSteps : StartSteps[n] = op

\* C27: a startup takes its steps in the order camera, backup of the
\* credentials, start_ap, connectivity server, video server, audio server,
\* each at most once and none but the camera's left out; once a step has
\* failed (start_ap has gone to restore_wifi, or the except branch has called
\* _cleanup) no further step is taken.  So the credentials are saved before
\* start_ap is called, and the video server is started only after a start_ap
\* that did not fail.
C27_StartupOrder ==
    \A u \in CtlTasks :
      kind[u] = "start" =>
        /\ \A j, k \in DOMAIN calls[u] :
             j < k =>
               /\ IsStartStep(calls[u][j]) /\ IsStartStep(calls[u][k]) =>
                    StepNo(calls[u][j]) < StepNo(calls[u][k])
               /\ calls[u][j] \in {"restore_wifi", "_cleanup"} =>
                    ~IsStartStep(calls[u][k])
        /\ \A k \in DOMAIN calls[u] :
             IsStartStep(calls[u][k]) /\ StepNo(calls[u][k]) > 2 =>
               \E j \in 1..(k - 1) :
                  /\ IsStartStep(calls[u][j])
                  /\ StepNo(calls[u][j]) = StepNo(calls[u][k]) - 1

\* A startup has gone through all six steps, in this order, and is READY.
C27_Witness ==
    \E u \in CtlTasks :
      /\ kind[u] = "start"
      /\ calls[u] = <<"camera_start", "save_wifi_credentials", "start_ap", "hostapd",
                      "connectivity_start", "video_start", "audio_start">>
      /\ state = READY
      /\ ap_state = AP_READY
      /\ video_running

\* The steps of _cleanup, in its order.
CleanSteps == <<"video_stop", "audio_stop", "connectivity_stop", "stop_ap",
                "restore_wifi">>

IsCleanStep(op) == \E n \in DOMAIN CleanSteps : CleanSteps[n] = op

CleanNo(op) == CHOOSE n \in DOMAIN CleanSteps : CleanSteps[n] = op

\* Positions j < k of the task's record lie in one run of _cleanup.
SameCleanup(u, j, k) ==
    /\ j < k
    /\ \E c \in 1..j :
         /\ calls[u][c] = "_cleanup"
         /\ \A m \in (c + 1)..k : calls[u][m] # "_cleanup"

\* C28: whoever runs _cleanup (the except branch of a startup, a stop
\* request, a monitor), the steps it takes are in the order video server,
\* audio server, connectivity server, stop_ap, restore_wifi, each at most
\* once and nothing else; restore_wifi comes straight after stop_ap and never
\* without it; a server is stopped exactly when it is running and stop_ap is
\* called exactly when the AP is active.
C28_CleanupOrder ==
    /\ [](\A u \in Procs : \A j, k \in DOMAIN calls[u] :
            SameCleanup(u, j, k) =>
              /\ IsCleanStep(calls[u][k])
              /\ calls[u][j] # "_cleanup" =>
                   CleanNo(calls[u][j]) < CleanNo(calls[u][k])
              /\ calls[u][k] = "restore_wifi" => calls[u][k - 1] = "stop_ap")
    /\ [][\A u \in Procs :
            /\ pc[u] = "cl_video" /\ pc'[u] # "cl_video" =>
                 (video_running <=> calls'[u] = Append(calls[u], "video_stop"))
            /\ pc[u] = "cl_audio" /\ pc'[u] # "cl_audio" =>
                 (audio_running <=> calls'[u] = Append(calls[u], "audio_stop"))
            /\ pc[u] = "cl_conn" /\ pc'[u] # "cl_conn" =>
                 (conn_running <=> calls'[u] = Append(calls[u], "connectivity_stop"))
            /\ pc[u] = "cl_ap" /\ pc'[u] # "cl_ap" =>
                 (ap_state = AP_READY <=> calls'[u] = Append(calls[u], "stop_ap"))]_vars

\* A stop request has run the whole of _cleanup, in this order, and the
\* session is IDLE.
C28_Witness ==
    \E u \in CtlTasks :
      /\ kind[u] = "stop"
      /\ calls[u] = <<"_cleanup", "video_stop", "audio_stop", "connectivity_stop",
                      "stop_ap", "restore_wifi">>
      /\ pc[u] = "done"
      /\ state = IDLE

\* C29: the state becomes ACTIVE only from READY, only in a step of the
\* client monitor waking from its sleep, and only when it counts at least one
\* video or audio client; and the state never goes from ACTIVE to READY.
C29_ActiveOnlyFromReady ==
    [][/\ state # ACTIVE /\ state' = ACTIVE =>
            /\ state = READY
            /\ video_clients + audio_clients > 0
            /\ \E u \in CmonTasks :
                 /\ pc[u] = "sleep" /\ pc'[u] = "loop"
                 /\ now >= wake[u]
                 /\ \A v \in Procs \ {u} : pc'[v] = pc[v]
       /\ state = ACTIVE => state' # READY]_vars

\* C31: a pass of restore_wifi's loop that finds an address sets CLIENT_MODE
\* and returns at once; a pass that finds none leaves the state and counts
\* one attempt more.  After the return there is no further pass and no
\* fallback: the fallback is entered only from a pass without an address,
\* the last of the retries.
C31_FirstAddressReturns ==
    [][\A u \in Procs :
         /\ pc[u] = "restore" /\ (pc'[u] # "restore" \/ attempt'[u] # attempt[u]) =>
              \/ /\ ap_state' = CLIENT_MODE
                 /\ pc'[u] = "restore_ret"
                 /\ attempt'[u] = attempt[u]
              \/ /\ ap_state' = ap_state
                 /\ attempt'[u] = attempt[u] + 1
                 /\ pc'[u] = NextAttempt(attempt'[u])
         /\ pc[u] = "restore_ret" => pc'[u] \notin {"restore", "fallback"}
         /\ pc[u] # "fallback" /\ pc'[u] = "fallback" =>
              /\ pc[u] = "restore"
              /\ attempt'[u] = STREAM_WIFI_RESTORE_RETRIES]_vars

\* restore_wifi is about to return from its second pass, the first that found
\* an address: CLIENT_MODE, one failed attempt counted, the fallback not run.
C31_Witness ==
    \E u \in Procs :
      /\ pc[u] = "restore_ret"
      /\ attempt[u] = 1
      /\ ap_state = CLIENT_MODE

\* C32: whenever the state is IDLE the AP manager is in CLIENT_MODE and
\* neither the video server, the audio server nor the connectivity server is
\* running.
C32_IdleMeansClientMode ==
    state = IDLE =>
      /\ ap_state = CLIENT_MODE
      /\ ~video_running
      /\ ~audio_running
      /\ ~conn_running

\* C33: whenever the state is READY or ACTIVE the AP manager is in AP_READY
\* and the video server is running.
C33_StreamingMeansApReady ==
    state \in {READY, ACTIVE} =>
      /\ ap_state = AP_READY
      /\ video_running

\* C34: whenever the AP manager reports CLIENT_MODE no AP daemon and no DHCP
\* server launched by a start_ap is alive: after a start_ap that failed past
\* the launch of hostapd and a restore_wifi that has set CLIENT_MODE, what
\* start_ap launched has been killed.
C34_ClientModeNoDaemons ==
    ap_state = CLIENT_MODE => ~hostapd /\ ~dnsmasq

\* The tasks whose _cleanup is executing: a startup's except branch, a stop
\* request or a monitor inside stop_streaming.
CleaningUp ==
    {u \in Procs : in_cleanup[u] /\ pc[u] \in (StopPcs \ {"stop_entry"}) \cup {"restore_wifi"}}

\* C35: at no moment is a _cleanup executing beside a startup sequence or
\* beside another _cleanup.
C35_CleanupAlone ==
    Cardinality(CleaningUp) > 0 =>
      /\ Cardinality(CleaningUp) = 1
      /\ StartingUp = {}

\* StreamStatus.to_dict: "duration".
Duration == IF start_time > 0 THEN now - start_time ELSE 0

\* C36: the start time is 0 whenever the state is IDLE and positive whenever
\* it is READY or ACTIVE; the duration of the status is then 0 in IDLE and
\* the time since the start in READY and ACTIVE.
C36_StartTimeMatchesState ==
    /\ state = IDLE => start_time = 0 /\ Duration = 0
    /\ state \in {READY, ACTIVE} =>
         /\ start_time > 0
         /\ start_time <= now
         /\ Duration = now - start_time

\* A session that ran for a while has been stopped: IDLE, the start time
\* back at 0.
C36_Witness ==
    /\ state = IDLE
    /\ start_time = 0
    /\ now > 1
    /\ \E u \in CtlTasks :
         kind[u] = "stop" /\ pc[u] = "done" /\ Count(u, "restore_wifi") = 1

\* C37: the error message of a status is non-empty only in ERROR.  The
\* message is empty whenever the state is not ERROR, every snapshot the
\* state-change callback took of a state other than ERROR carries an empty
\* message (the one taken on entry into PREPARING too, after an ERROR as
\* well), and the snapshot taken on entry into ERROR carries the message of
\* the step that failed.
C37_MessageOnlyInError ==
    /\ state # ERROR => error_message = ""
    /\ \A k \in DOMAIN notified :
         IF notified[k].state = ERROR
         THEN notified[k].error_message # ""
         ELSE notified[k].error_message = ""

\* C38: a start request that passed the guard comes to its end: from
\* PREPARING the state becomes READY or ERROR, and the coroutine of every
\* startup in progress ends.
C38_StartTerminates ==
    /\ (state = PREPARING) ~> (state \in {READY, ERROR})
    /\ \A u \in CtlTasks :
         (kind[u] = "start" /\ pc[u] \in StartupPcs) ~> (pc[u] = "done")

\* A startup failed inside start_ap, restored client mode, reported ERROR,
\* cleaned up and returned False.
C38_Witness ==
    \E u \in CtlTasks :
      /\ kind[u] = "start"
      /\ pc[u] = "done"
      /\ result[u] = "false"
      /\ Count(u, "restore_wifi") = 1
      /\ state = ERROR

=============================================================================
